---- MODULE Spec2Model ----
(***************************************************************************)
(* A model of the retrieval-orchestration and caching layer of ragu:       *)
(*   - the file-based QueryCache (src/src/cache.py),                       *)
(*   - the usage log (src/src/monitoring.py),                              *)
(*   - the single-version query paths (src/src/query.py),                  *)
(*   - the collection writes of embed_file (src/src/embed.py,              *)
(*     src/src/get_vector_db.py).                                          *)
(*                                                                         *)
(* Every handler is one atomic action, except in the specifications of    *)
(* concurrent calls (SpecCacheConc, SpecCacheRace, SpecEmbedConc), where a *)
(* call is one step per access to the shared directory or engine.  The     *)
(* outcomes of the external collaborators (vector store engine, language   *)
(* model, file system) are inputs of the action, drawn with \E.            *)
(*                                                                         *)
(* Conventions                                                             *)
(*   - a query text is a sequence of characters, so that lower() and       *)
(*     strip() are computed and not assumed;                               *)
(*   - a version and a collection name are sequences of tokens, so that    *)
(*     the "-v" suffixing of names is computed; version None is <<>>;      *)
(*   - md5(json.dumps(...)) of the cache key is taken to be injective: the *)
(*     key is the record that is hashed;                                   *)
(*   - the cache directory is the sequence of its entry files in st_mtime  *)
(*     order, oldest first; st_mtime is taken to order the writes          *)
(*     strictly (a later write has a later modification time).             *)
(***************************************************************************)
EXTENDS Integers, Sequences, FiniteSets, TLC

VARIABLES
    files,   \* cache directory: sequence of [key, body], st_mtime ascending
    now,     \* time.time()
    last,    \* the last QueryCache call: its inputs, return value and exception
    hist,    \* keys written by set since the directory was last empty
    faults,  \* whether the environment may corrupt files / fail I/O in this run
    monitoring, \* MONITORING_ENABLED
    qlog,    \* queries.jsonl: the sequence of QueryEvents
    colls,   \* the vector store's catalog: physical name -> sequence of chunks
    qres,    \* the last query call: its inputs, return value, exception, calls made
    elog,    \* embeddings.jsonl: the sequence of EmbeddingEvents
    eres,    \* the last embed call: its inputs and exception
    pure,    \* the last call of a function without side effects: inputs, result
    procs    \* the calls in progress when calls run concurrently: the position
             \* and the local values of each

cacheVars == <<files, now, last, hist>>
queryVars == <<qlog, qres>>
embedVars == <<colls, elog, eres>>
vars ==
    <<files, now, last, hist, faults, monitoring, procs, qlog, colls, qres, elog, eres,
      pure>>

(***************************************************************************)
(* Bounds and configuration                                                *)
(***************************************************************************)
MaxTime == 2

\* QueryCache.ttl and QueryCache.max_size as configured at construction
TTL == 1
MaxSize == 2

(***************************************************************************)
(* Strings                                                                 *)
(***************************************************************************)
Whitespace == {" "}

LowerChar(c) == IF c = "F" THEN "f" ELSE IF c = "G" THEN "g" ELSE c

\* str.lower()
Lower(s) == [i \in DOMAIN s |-> LowerChar(s[i])]

SetMin(S) == CHOOSE x \in S : \A y \in S : x <= y
SetMax(S) == CHOOSE x \in S : \A y \in S : x >= y

\* the element of a singleton: Only({e(x) : x \in {d}}) is e(d), d computed once
Only(S) == CHOOSE r \in S : TRUE

\* str.strip(): drops leading and trailing whitespace only
Strip(s) ==
    LET idx == {i \in DOMAIN s : s[i] \notin Whitespace}
    IN  IF idx = {} THEN <<>> ELSE SubSeq(s, SetMin(idx), SetMax(idx))

NoVersion == <<>>

\* no call in progress
NoProcs == <<>>

(***************************************************************************)
(* Query results and their JSON form                                       *)
(***************************************************************************)
\* A result: the answer text, the source documents, and how the documents are
\* represented: "dict" (plain dicts, JSON-native) or "obj" (Document objects).
Result(a, d, rep) == [answer |-> a, docs |-> d, rep |-> rep]

\* None
Absent == Result("", <<>>, "none")

\* json.dump raises TypeError on a value that holds Document objects
Serializable(r) == r.rep = "dict"

\* json.dump / json.load of a serializable result: the text, and the value read back
JsonDump(r) == Result(r.answer, r.docs, "json")
JsonLoad(t) == Result(t.answer, t.docs, "dict")

(***************************************************************************)
(* Cache entry files                                                       *)
(***************************************************************************)
\* The content of an entry file.  kind "entry" is what set writes; the other
\* kinds are contents that json.load / the field accesses of get stumble on.
\* given and by are not on disk: they remember the value that was handed to set
\* and the (query, version, k) it was handed with.
Body(kind, ts, text, given, by) ==
    [kind |-> kind, ts |-> ts, text |-> text, given |-> given, by |-> by]

Req(q, v, k) == [q |-> q, v |-> v, k |-> k]

NoReq == Req(<<>>, NoVersion, 0)

Garbage(kind) == Body(kind, 0, Absent, Absent, NoReq)

CorruptKinds == {"badjson", "nonobj", "no_ts", "no_result", "ts_nonnum"}

\* QueryCache._get_cache_key without the lower()
GetCacheKeyNoLower(query, version, k) ==
    [query |-> Strip(query), version |-> version, k |-> k]

\* QueryCache._get_cache_key: the hashed record (query lowercased and stripped)
GetCacheKey(query, version, k) ==
    [query |-> Strip(Lower(query)), version |-> version, k |-> k]

KeyOf(req) == GetCacheKey(req.q, req.v, req.k)

Keys(fs) == {fs[i].key : i \in DOMAIN fs}

Has(fs, key) == key \in Keys(fs)

BodyOf(fs, key) == fs[CHOOSE i \in DOMAIN fs : fs[i].key = key].body

\* Path.unlink of the entry file of key
Unlink(fs, key) == SelectSeq(fs, LAMBDA f : f.key # key)

\* open(path, 'w') + write: the file gets the content and the newest st_mtime
WriteFile(fs, key, body) == Append(Unlink(fs, key), [key |-> key, body |-> body])

\* an entry that counts as expired as soon as it is written
ExpiredAtOnce(body, t) == t - body.ts >= 0

Expired(body, t) == t - body.ts > TTL

Outcome(ret, raised, fs) == [ret |-> ret, raised |-> raised, files |-> fs]

\* QueryCache.get that sweeps every expired entry of the directory
CacheGetSweep(fs, t, key) ==
    LET kept == SelectSeq(fs, LAMBDA f : ~(t - f.body.ts > TTL))
    IN  IF Has(kept, key)
        THEN Outcome(JsonLoad(BodyOf(kept, key).text), "none", kept)
        ELSE Outcome(Absent, "none", kept)

\* QueryCache.get that takes an entry of age ttl - 1 for expired already
CacheGetEager(fs, t, key) ==
    IF Has(fs, key) /\ t - BodyOf(fs, key).ts > TTL - 1
    THEN Outcome(Absent, "none", Unlink(fs, key))
    ELSE IF Has(fs, key)
         THEN Outcome(JsonLoad(BodyOf(fs, key).text), "none", fs)
         ELSE Outcome(Absent, "none", fs)

\* QueryCache.get: the value returned, the exception raised, the directory left.
\*   invalid JSON          -> JSONDecodeError, caught: unlink, None
\*   JSON that is no object -> TypeError on cache_entry['timestamp'], not caught
\*   no 'timestamp'         -> KeyError, caught: unlink, None
\*   non-numeric timestamp  -> TypeError on the subtraction, not caught
\*   expired                -> unlink, None
\*   no 'result'            -> KeyError, caught: unlink, None
CacheGet(fs, t, key) ==
    IF ~Has(fs, key) THEN Outcome(Absent, "none", fs)
    ELSE LET b == BodyOf(fs, key)
         IN  CASE b.kind = "badjson"   -> Outcome(Absent, "none", Unlink(fs, key))
               [] b.kind = "nonobj"    -> Outcome(Absent, "TypeError", fs)
               [] b.kind = "no_ts"     -> Outcome(Absent, "none", Unlink(fs, key))
               [] b.kind = "ts_nonnum" -> Outcome(Absent, "TypeError", fs)
               [] OTHER ->
                    IF Expired(b, t) THEN Outcome(Absent, "none", Unlink(fs, key))
                    ELSE IF b.kind = "no_result"
                         THEN Outcome(Absent, "none", Unlink(fs, key))
                         ELSE Outcome(JsonLoad(b.text), "none", fs)

\* QueryCache._enforce_max_size that removes the newest files
EnforceMaxSizeNewest(fs) ==
    IF Len(fs) < MaxSize THEN fs
    ELSE SubSeq(fs, 1, MaxSize - 1)

\* QueryCache._enforce_max_size: at max_size or above, unlink the
\* len - max_size + 1 files of oldest st_mtime
EnforceMaxSize(fs) ==
    IF Len(fs) < MaxSize THEN fs
    ELSE SubSeq(fs, (Len(fs) - MaxSize + 1) + 1, Len(fs))

\* QueryCache.set: evict, then write.  json.dump streams into the opened file, so
\* a value it cannot serialize leaves a truncated file and the TypeError (not an
\* IOError) leaves set; an IOError on open is logged and swallowed.
CacheSet(fs, t, req, r, io) ==
    LET key == KeyOf(req)
        ev  == EnforceMaxSize(fs)
    IN  IF io = "ioerror" THEN Outcome(Absent, "none", ev)
        ELSE IF ~Serializable(r)
             THEN Outcome(Absent, "TypeError", WriteFile(ev, key, Garbage("badjson")))
             ELSE Outcome(Absent, "none",
                          WriteFile(ev, key, Body("entry", t, JsonDump(r), r, req)))

(***************************************************************************)
(* The vector store engine (langchain_chroma.Chroma), as the code calls it *)
(***************************************************************************)
\* COLLECTION_NAME
CollectionName == <<"docs">>

\* the physical name: f"{collection_name}-v{version}" when version is truthy
FinalName(base, version) ==
    IF version # NoVersion THEN base \o <<"-v">> \o version ELSE base

Exists(cl, name) == name \in DOMAIN cl

\* collection.count(), 0 for a collection that is not there
Count(cl, name) == IF Exists(cl, name) THEN Len(cl[name]) ELSE 0

\* Chroma(collection_name=name, ...): the client's get_or_create_collection;
\* a collection that does not exist comes into being, empty
ChromaOpen(cl, name) ==
    IF Exists(cl, name) THEN cl ELSE cl @@ (name :> <<>>)

\* db.add_documents(chunks) on an open collection
AddDocuments(cl, name, chunks) == [cl EXCEPT ![name] = @ \o chunks]

\* Chroma.from_documents(chunks, ..., collection_name=name): open, then add
FromDocuments(cl, name, chunks) == AddDocuments(ChromaOpen(cl, name), name, chunks)

\* delete_collection() that leaves the collection as it is
DeleteCollectionKeeps(cl, name) == cl

\* db.delete_collection()
DeleteCollection(cl, name) == [n \in DOMAIN cl \ {name} |-> cl[n]]

\* the retriever's top-k chunks of a collection
Retrieve(cl, name, k) ==
    IF Len(cl[name]) <= k THEN cl[name] ELSE SubSeq(cl[name], 1, k)

\* generate_collection_name (utils.py 79-92)
GenerateCollectionName(base_name, version) ==
    IF version # NoVersion THEN base_name \o <<"-v">> \o version ELSE base_name

(***************************************************************************)
(* The usage log                                                           *)
(***************************************************************************)
QueryEvent(q, v, cached) == [query |-> q, version |-> v, cached |-> cached]

\* log_query that records every query as a miss
LogQueryAlwaysMiss(mon, q, v, cached, lg) ==
    IF ~mon \/ lg = "fail" THEN <<>> ELSE <<QueryEvent(q, v, FALSE)>>

\* QueryMonitor.log_query: the lines appended.  Nothing when monitoring is
\* off; an exception inside (lg = "fail") is logged and swallowed.
LogQuery(mon, q, v, cached, lg) ==
    IF ~mon \/ lg = "fail" THEN <<>> ELSE <<QueryEvent(q, v, cached)>>

(***************************************************************************)
(* Statistics over the usage logs (monitoring.py)                          *)
(***************************************************************************)
\* A line of queries.jsonl or embeddings.jsonl.  kind "event" is what log_query /
\* log_embedding write; inwin: its timestamp is >= the cutoff.  The other kinds:
\*   "badjson": not JSON;  "nonobj": JSON but not an object;
\*   "no_ts": no 'timestamp' key;  "bad_ts": a timestamp fromisoformat rejects;
\*   "no_query": in window, no 'query' key;  "null_query": in window, query null.
Line(kind, inwin, cached, query, chunks) ==
    [kind |-> kind, inwin |-> inwin, cached |-> cached, query |-> query,
     chunks |-> chunks]

Malformed(kind) == Line(kind, TRUE, FALSE, <<>>, 0)

\* the file does not exist
Missing == [exists |-> FALSE, lines |-> <<>>]

LogFile(lines) == [exists |-> TRUE, lines |-> lines]

\* What the loop body of get_query_stats does with a line: "count" it, "skip" it
\* (out of window, or json.JSONDecodeError / KeyError caught by the inner
\* except), or "abort": an exception the inner except does not catch (TypeError
\* on a non-object, ValueError of fromisoformat, AttributeError of None.lower())
\* reaches the outer except, which returns {}
QueryLineEffect(l) ==
    CASE l.kind = "badjson"    -> "skip"
      [] l.kind = "nonobj"     -> "abort"
      [] l.kind = "no_ts"      -> "skip"
      [] l.kind = "bad_ts"     -> "abort"
      [] l.kind = "no_query"   -> "skip"
      [] l.kind = "null_query" -> "abort"
      [] OTHER                 -> IF l.inwin THEN "count" ELSE "skip"

\* the same for get_embedding_stats, which reads no 'query'
EmbeddingLineEffect(l) ==
    CASE l.kind = "badjson"    -> "skip"
      [] l.kind = "nonobj"     -> "abort"
      [] l.kind = "no_ts"      -> "skip"
      [] l.kind = "bad_ts"     -> "abort"
      [] OTHER                 -> IF l.inwin THEN "count" ELSE "skip"

\* round(a / b, 0) for b > 0 (no tie arises for the b in range)
RoundDiv(a, b) == (2 * a + b) \div (2 * b)

\* cached_count / total_count as it is, without the * 100
CacheHitFraction(cached_count, total_count) ==
    IF total_count > 0 THEN RoundDiv(100 * cached_count, total_count) ELSE 0

\* round(cached_count / total_count * 100, 2), in hundredths of a percent
CacheHitRate(cached_count, total_count) ==
    IF total_count > 0 THEN RoundDiv(10000 * cached_count, total_count) ELSE 0

\* the dict returned; empty: the {} of the outer except
QueryStats(total, unique, rate, empty) ==
    [total_queries |-> total, unique_queries |-> unique, cache_hit_rate |-> rate,
     empty |-> empty]

\* the loop over the lines of queries.jsonl
RECURSIVE QueryStatsLoop(_, _, _)
QueryStatsLoop(lines, i, acc) ==
    IF i > Len(lines) THEN acc
    ELSE LET l == lines[i]
             e == QueryLineEffect(l)
         IN  IF e = "abort" THEN [acc EXCEPT !.aborted = TRUE]
             ELSE IF e = "skip" THEN QueryStatsLoop(lines, i + 1, acc)
             ELSE QueryStatsLoop(lines, i + 1,
                     [acc EXCEPT !.total = @ + 1,
                                 !.cached = IF l.cached THEN @ + 1 ELSE @,
                                 !.queries = @ \cup {Lower(l.query)}])

\* QueryMonitor.get_query_stats (monitoring.py 63-125)
GetQueryStats(file) ==
    IF ~file.exists THEN QueryStats(0, 0, 0, FALSE)
    ELSE LET acc == QueryStatsLoop(file.lines, 1,
                        [total |-> 0, cached |-> 0, queries |-> {}, aborted |-> FALSE])
         IN  IF acc.aborted THEN QueryStats(0, 0, 0, TRUE)
             ELSE QueryStats(acc.total, Cardinality(acc.queries),
                             CacheHitRate(acc.cached, acc.total), FALSE)

\* successful: the entries with e.get('success', True); failed: the others
EmbeddingStats(total, successful, chunks, empty) ==
    [total_embeddings |-> total, successful |-> successful,
     failed |-> total - successful, total_chunks |-> chunks, empty |-> empty]

\* e.get('success', True)
Success(l) == IF "success" \in DOMAIN l THEN l.success ELSE TRUE

\* the loop over the lines of embeddings.jsonl
RECURSIVE EmbeddingStatsLoop(_, _, _)
EmbeddingStatsLoop(lines, i, acc) ==
    IF i > Len(lines) THEN acc
    ELSE LET l == lines[i]
             e == EmbeddingLineEffect(l)
         IN  IF e = "abort" THEN [acc EXCEPT !.aborted = TRUE]
             ELSE IF e = "skip" THEN EmbeddingStatsLoop(lines, i + 1, acc)
             ELSE EmbeddingStatsLoop(lines, i + 1,
                     [acc EXCEPT !.total = @ + 1, !.chunks = @ + l.chunks,
                                 !.successful = IF Success(l) THEN @ + 1 ELSE @])

\* EmbeddingMonitor.get_embedding_stats (monitoring.py 170-221)
GetEmbeddingStats(file) ==
    IF ~file.exists THEN EmbeddingStats(0, 0, 0, FALSE)
    ELSE LET acc == EmbeddingStatsLoop(file.lines, 1,
                        [total |-> 0, successful |-> 0, chunks |-> 0,
                         aborted |-> FALSE])
         IN  IF acc.aborted THEN EmbeddingStats(0, 0, 0, TRUE)
             ELSE EmbeddingStats(acc.total, acc.successful, acc.chunks, FALSE)

(***************************************************************************)
(* Single-version queries                                                  *)
(***************************************************************************)
\* not question
EmptyQuestionNoStrip(q) == q = <<>>

\* not question or not question.strip()
EmptyQuestion(q) == q = <<>> \/ Strip(q) = <<>>

\* What a query call did: the value returned, the exception raised, the cache
\* directory and the catalog it left, the events it appended, whether it called
\* the engine / the language model, whether one of those calls failed, and
\* whether the sources returned come from a fallback instead of the retrieval.
QOut(ret, raised, fs, cl, evs, engine, llm, failed, fallback) ==
    [ret |-> ret, raised |-> raised, files |-> fs, colls |-> cl, events |-> evs,
     engine |-> engine, llm |-> llm, failed |-> failed, fallback |-> fallback]

\* The outcomes of the external calls of one query:
\*   open: get_vector_db;  r1: retriever.invoke;  r2: the fallback retrieval;
\*   ch: rag_chain.invoke (retrieval again, then generation), ans its answer;
\*   meta: whether json.dump can serialize the documents' metadata;
\*   io: the cache file write;  lg: the log append.
\* "typeerr" is an AttributeError or TypeError, "err" any other exception.
\* A field that cannot matter (the call is not reached) is held at its first value.
Reached(x) ==
    /\ x.open = "err" => x.r1 = "ok"
    /\ x.r1 # "typeerr" => x.r2 = "ok"
    /\ (x.open = "err" \/ x.r1 = "err" \/ x.r2 = "err") => x.ch = "ok"
    /\ (x.open = "err" \/ x.r1 = "err" \/ x.r2 = "err" \/ x.ch = "err")
           => (x.ans = "a1" /\ x.meta = "json" /\ x.io = "ok")
    /\ x.io = "ioerror" => x.meta = "json"

Answers == {"a1", "a2"}

\* every external call succeeds
Healthy ==
    [open |-> "ok", r1 |-> "ok", r2 |-> "ok", ch |-> "ok", ans |-> "a1",
     meta |-> "json", io |-> "ok", lg |-> "ok"]

NominalOutcomes ==
    {x \in [open : {"ok", "err"}, r1 : {"ok", "typeerr", "err"},
            r2 : {"ok", "typeerr", "err"}, ch : {"ok", "err"}, ans : Answers,
            meta : {"json"}, io : {"ok"}, lg : {"ok"}] : Reached(x)}

\* a healthy engine and model, with the cache's and the log's files failing
FaultOutcomes ==
    {x \in [open : {"ok"}, r1 : {"ok"}, r2 : {"ok"}, ch : {"ok"}, ans : Answers,
            meta : {"json", "nonjson"}, io : {"ok", "ioerror"},
            lg : {"ok", "fail"}] : Reached(x)}

\* query_docs (query.py 61-220)
QueryDocs(fs, t, cl, mon, req, useCache, x) ==
    IF EmptyQuestion(req.q)
    THEN QOut(Absent, "ValueError", fs, cl, <<>>, FALSE, FALSE, FALSE, FALSE)
    ELSE
    LET g == IF useCache THEN CacheGet(fs, t, KeyOf(req))
             ELSE Outcome(Absent, "none", fs)
    IN
    IF g.raised # "none"
    THEN \* cache.get is called outside any try
         QOut(Absent, g.raised, g.files, cl, <<>>, FALSE, FALSE, FALSE, FALSE)
    ELSE IF g.ret # Absent
    THEN \* hit: log cached=True and return the cached value
         QOut(g.ret, "none", g.files, cl, LogQuery(mon, req.q, req.v, TRUE, x.lg),
              FALSE, FALSE, FALSE, FALSE)
    ELSE IF x.open = "err"
    THEN QOut(Absent, "EngineError", g.files, cl, <<>>, TRUE, FALSE, TRUE, FALSE)
    ELSE
    LET name == FinalName(CollectionName, req.v)
        cl1  == ChromaOpen(cl, name)
        docs == Retrieve(cl1, name, req.k)
    IN
    IF x.r1 = "err" \/ (x.r1 = "typeerr" /\ x.r2 # "ok")
    THEN \* retriever.invoke failed with another exception, or the fallback
         \* base_retriever.invoke failed: re-raised by the outer except
         QOut(Absent, "RetrievalError", g.files, cl1, <<>>, TRUE, TRUE, TRUE, FALSE)
    ELSE IF x.ch = "err"
    THEN QOut(Absent, "GenerationError", g.files, cl1, <<>>, TRUE, TRUE, TRUE, FALSE)
    ELSE
    LET fb == x.r1 = "typeerr"
        cacheable == Result(x.ans, docs, IF x.meta = "json" THEN "dict" ELSE "obj")
        s == IF useCache THEN CacheSet(g.files, t, req, cacheable, x.io)
             ELSE Outcome(Absent, "none", g.files)
    IN
    IF s.raised # "none"
    THEN \* cache.set raised inside the try: logged and re-raised
         QOut(Absent, s.raised, s.files, cl1, <<>>, TRUE, TRUE, fb, fb)
    ELSE QOut(Result(x.ans, docs, "obj"), "none", s.files, cl1,
              LogQuery(mon, req.q, req.v, FALSE, x.lg), TRUE, TRUE, fb, fb)

\* query_simple (query.py 223-312): no cache lookup, no cache store, no log line;
\* an AttributeError/TypeError of both retrieval attempts becomes source_docs = []
QuerySimple(fs, t, cl, mon, req, x) ==
    IF EmptyQuestion(req.q)
    THEN QOut(Absent, "ValueError", fs, cl, <<>>, FALSE, FALSE, FALSE, FALSE)
    ELSE IF x.open = "err"
    THEN QOut(Absent, "EngineError", fs, cl, <<>>, TRUE, FALSE, TRUE, FALSE)
    ELSE
    LET name == FinalName(CollectionName, req.v)
        cl1  == ChromaOpen(cl, name)
        docs == IF x.r1 = "typeerr" /\ x.r2 = "typeerr" THEN <<>>
                ELSE Retrieve(cl1, name, req.k)
        fb   == x.r1 = "typeerr"
    IN
    IF x.r1 = "err" \/ (x.r1 = "typeerr" /\ x.r2 = "err")
    THEN QOut(Absent, "RetrievalError", fs, cl1, <<>>, TRUE, FALSE, TRUE, FALSE)
    ELSE IF x.ch = "err"
    THEN QOut(Absent, "GenerationError", fs, cl1, <<>>, TRUE, TRUE, TRUE, FALSE)
    ELSE QOut(Result(x.ans, docs, "obj"), "none", fs, cl1, <<>>, TRUE, TRUE, fb, fb)

(***************************************************************************)
(* Multi-version queries (multi_version_query.py)                          *)
(***************************************************************************)
\* the version strings in the order of Python's string comparison
VersionOrder == << <<"1">>, <<"2">> >>

Rank(v) == CHOOSE i \in DOMAIN VersionOrder : VersionOrder[i] = v

RECURSIVE Insert(_, _)
Insert(v, s) ==
    IF s = <<>> THEN <<v>>
    ELSE IF Rank(v) <= Rank(s[1]) THEN <<v>> \o s
         ELSE <<s[1]>> \o Insert(v, Tail(s))

\* a version list left in the order given
Unsorted(versions) == versions

\* sorted(versions)
RECURSIVE Sorted(_)
Sorted(versions) ==
    IF versions = <<>> THEN <<>> ELSE Insert(versions[1], Sorted(Tail(versions)))

\* ','.join(versions)
RECURSIVE Join(_)
Join(versions) ==
    IF versions = <<>> THEN <<>>
    ELSE IF Len(versions) = 1 THEN versions[1]
         ELSE versions[1] \o <<",">> \o Join(Tail(versions))

\* cache_key = f"{question}_{','.join(sorted(versions))}", handed to the cache in
\* the place of the version
EnsembleCacheKey(question, versions) == question \o <<"_">> \o Join(Sorted(versions))

\* get_vector_db for each version that opens, in turn
RECURSIVE OpenAll(_, _)
OpenAll(cl, opened) ==
    IF opened = <<>> THEN cl
    ELSE OpenAll(ChromaOpen(cl, FinalName(CollectionName, opened[1])), Tail(opened))

\* documents of every version, opened or not
RetrieveEveryVersion(cl, opened, k) ==
    Retrieve(cl, FinalName(CollectionName, VersionOrder[1]), k)
        \o Retrieve(cl, FinalName(CollectionName, VersionOrder[2]), k)

\* the ensemble retriever's documents: the top k of every opened version
RECURSIVE RetrieveAll(_, _, _)
RetrieveAll(cl, opened, k) ==
    IF opened = <<>> THEN <<>>
    ELSE Retrieve(cl, FinalName(CollectionName, opened[1]), k)
             \o RetrieveAll(cl, Tail(opened), k)

\* query_multiple_versions (multi_version_query.py 26-192).
\*   x.opened: the versions whose get_vector_db does not raise;
\*   x.r: the retrieval: "ok"; "fallback": invoke raised AttributeError/TypeError
\*        and a later attempt returned the documents; "empty": every attempt
\*        failed and source_docs = []; "err": an exception that is re-raised;
\*   x.ch: rag_chain.invoke, x.ans its answer;  x.io, x.lg: cache write, log append.
QueryMultipleVersions(fs, t, cl, mon, q, versions, k, x) ==
    IF EmptyQuestion(q) \/ versions = <<>>
    THEN QOut(Absent, "ValueError", fs, cl, <<>>, FALSE, FALSE, FALSE, FALSE)
    ELSE
    LET req == Req(q, EnsembleCacheKey(q, versions), k)
        g   == CacheGet(fs, t, KeyOf(req))
    IN
    IF g.raised # "none"
    THEN QOut(Absent, g.raised, g.files, cl, <<>>, FALSE, FALSE, FALSE, FALSE)
    ELSE IF g.ret # Absent
    THEN \* hit: returned as it is, nothing logged
         QOut(g.ret, "none", g.files, cl, <<>>, FALSE, FALSE, FALSE, FALSE)
    ELSE
    LET opened == SelectSeq(versions, LAMBDA v : v \in x.opened)
        cl1    == OpenAll(cl, opened)
        anyerr == opened # versions
    IN
    IF opened = <<>>
    THEN QOut(Absent, "NoValidVersions", g.files, cl1, <<>>, TRUE, FALSE, TRUE, FALSE)
    ELSE IF x.r = "err"
    THEN QOut(Absent, "RetrievalError", g.files, cl1, <<>>, TRUE, FALSE, TRUE, FALSE)
    ELSE IF x.ch = "err"
    THEN QOut(Absent, "GenerationError", g.files, cl1, <<>>, TRUE, TRUE, TRUE, FALSE)
    ELSE
    LET docs == IF x.r = "empty" THEN <<>> ELSE RetrieveAll(cl1, opened, k)
        res  == Result(x.ans, docs, "dict")
        st   == CacheSet(g.files, t, req, res, x.io)
        fb   == x.r # "ok"
    IN  QOut(res, "none", st.files, cl1,
             LogQuery(mon, q, Join(versions), FALSE, x.lg), TRUE, TRUE,
             anyerr \/ fb, fb)

\* result.get('source_documents', [])[:3]
Top3(docs) == IF Len(docs) <= 3 THEN docs ELSE SubSeq(docs, 1, 3)

\* The entry compare_versions makes of the outcome o of query_docs for version
\* v.  A result that came from the cache holds its documents as dicts, and
\* doc.page_content on a dict raises AttributeError, which the except turns into
\* an error entry.  qok, qanswer: whether query_docs returned, and the answer it
\* returned.
CompareEntry(acc, v, o) ==
    LET entry ==
            IF o.raised # "none"
            THEN [version |-> v, answer |-> "", sources |-> <<>>,
                  error |-> o.raised, qok |-> FALSE, qanswer |-> ""]
            ELSE IF o.ret.rep = "dict" /\ o.ret.docs # <<>>
            THEN [version |-> v, answer |-> "", sources |-> <<>>,
                  error |-> "AttributeError", qok |-> TRUE, qanswer |-> o.ret.answer]
            ELSE [version |-> v, answer |-> o.ret.answer, sources |-> Top3(o.ret.docs),
                  error |-> "none", qok |-> TRUE, qanswer |-> o.ret.answer]
    IN  [files |-> o.files, colls |-> o.colls, events |-> acc.events \o o.events,
         entries |-> Append(acc.entries, entry),
         engine |-> acc.engine \/ o.engine, llm |-> acc.llm \/ o.llm,
         failed |-> acc.failed \/ o.failed, fallback |-> acc.fallback \/ o.fallback]

\* one turn of the loop of compare_versions: query_docs(question, version=v,
\* use_cache=True), then the entry of v
CompareStep(acc, t, mon, q, v, k, x) ==
    Only({CompareEntry(a, v, o) :
            a \in {acc},
            o \in {QueryDocs(acc.files, t, acc.colls, mon, Req(q, v, k), TRUE, x)}})

RECURSIVE CompareLoop(_, _, _, _, _, _, _, _)
CompareLoop(acc, t, mon, q, versions, k, xs, i) ==
    IF i > Len(versions) THEN acc
    ELSE Only({CompareLoop(next, t, mon, q, versions, k, xs, i + 1) :
                 next \in {CompareStep(acc, t, mon, q, versions[i], k, xs[i])}})

\* the value compare_versions returns
Comparison(entries) == [answer |-> "", docs |-> <<>>, rep |-> "comparison",
                        entries |-> entries]

\* compare_versions (multi_version_query.py 195-246); xs[i]: the outcomes of the
\* external calls of the query of versions[i]
CompareVersions(fs, t, cl, mon, q, versions, k, xs) ==
    IF EmptyQuestion(q) \/ Len(versions) < 2
    THEN QOut(Absent, "ValueError", fs, cl, <<>>, FALSE, FALSE, FALSE, FALSE)
    ELSE Only({QOut(Comparison(acc.entries), "none", acc.files, acc.colls,
                    acc.events, acc.engine, acc.llm, acc.failed, acc.fallback) :
                 acc \in {CompareLoop([files |-> fs, colls |-> cl, events |-> <<>>,
                                       entries |-> <<>>, engine |-> FALSE,
                                       llm |-> FALSE, failed |-> FALSE,
                                       fallback |-> FALSE],
                                      t, mon, q, versions, k, xs, 1)}})

(***************************************************************************)
(* Embedding a file                                                        *)
(***************************************************************************)
\* an event that reports a failure
EmbedEventFailed(v, name, count) ==
    [version |-> v, collection_name |-> name, chunk_count |-> count,
     success |-> FALSE]

EmbedEvent(v, name, count) ==
    [version |-> v, collection_name |-> name, chunk_count |-> count,
     success |-> TRUE]

\* EmbeddingMonitor.log_embedding: the lines appended
LogEmbedding(mon, v, name, count, lg) ==
    IF ~mon \/ lg = "fail" THEN <<>> ELSE <<EmbedEvent(v, name, count)>>

\* What an embed call did: the exception raised, the catalog it left, the
\* events it appended, and whether its delete_collection() ran to completion
EOut(raised, cl, evs, deleted) ==
    [raised |-> raised, colls |-> cl, events |-> evs, deleted |-> deleted]

\* get_or_create_collection(collection_name, embedding, version): the name it
\* opens is collection_name with the version suffix appended; any exception of
\* the open or of the count means "does not exist"
CheckedName(collection_name, version) == FinalName(collection_name, version)

\* embed_file (embed.py 39-166), from the point where the chunks are split.
\*   x.open: the Chroma(...) open of the overwrite path or of the existence check;
\*   x.write: from_documents / add_documents;  x.lg: the log append.
EmbedFile(cl, mon, version, chunks, overwrite, x) ==
    LET final == FinalName(CollectionName, version)
    IN
    IF overwrite
    THEN \* open and delete, every error swallowed; then create
         LET cl1 == IF x.open = "ok"
                    THEN DeleteCollection(ChromaOpen(cl, final), final)
                    ELSE cl
         IN  IF x.write = "err" THEN EOut("EngineError", cl1, <<>>, x.open = "ok")
             ELSE EOut("none", FromDocuments(cl1, final, chunks),
                       LogEmbedding(mon, version, final, Len(chunks), x.lg),
                       x.open = "ok")
    ELSE \* the existence check is handed the final name and the version
         LET checked == CheckedName(final, version)
         IN  IF x.open = "ok"
             THEN \* the open brings the checked collection into being: it "exists"
                  LET cl1 == ChromaOpen(cl, checked)
                  IN  IF x.write = "err" THEN EOut("EngineError", cl1, <<>>, FALSE)
                      ELSE EOut("none", AddDocuments(cl1, checked, chunks),
                                LogEmbedding(mon, version, final, Len(chunks), x.lg),
                                FALSE)
             ELSE IF x.write = "err" THEN EOut("EngineError", cl, <<>>, FALSE)
                  ELSE EOut("none", FromDocuments(cl, final, chunks),
                            LogEmbedding(mon, version, final, Len(chunks), x.lg),
                            FALSE)

\* What embed_directory did: the catalog it left, the events its files
\* appended, and results['success'] and results['failed']
DOut(cl, evs, success, failed) ==
    [colls |-> cl, events |-> evs, success |-> success, failed |-> failed]

\* one turn of the loop of embed_directory: embed_file(file, collection_name,
\* version, overwrite=False) whatever overwrite the directory call was given;
\* an exception is counted and swallowed
DirectoryStep(acc, mon, version, chunks, x) ==
    Only({DOut(o.colls, a.events \o o.events,
               IF o.raised = "none" THEN a.success + 1 ELSE a.success,
               IF o.raised = "none" THEN a.failed ELSE a.failed + 1) :
            a \in {acc},
            o \in {EmbedFile(acc.colls, mon, version, chunks, FALSE, x)}})

RECURSIVE DirectoryLoop(_, _, _, _, _, _)
DirectoryLoop(acc, mon, version, dir, xs, i) ==
    IF i > Len(dir) THEN acc
    ELSE Only({DirectoryLoop(next, mon, version, dir, xs, i + 1) :
                 next \in {DirectoryStep(acc, mon, version, dir[i], xs[i])}})

\* embed_directory (embed.py 169-212); dir: the chunks of each file found,
\* xs[i]: the outcomes of the external calls of the i-th file
EmbedDirectory(cl, mon, version, dir, overwrite, xs) ==
    DirectoryLoop(DOut(cl, <<>>, 0, 0), mon, version, dir, xs, 1)

(***************************************************************************)
(* The QueryCache API as a state machine                                   *)
(***************************************************************************)
\* the calls' (query, version, k): two spellings of one question, the same
\* question under another version and under another k, and another question
Requests ==
    { Req(<<"f">>, NoVersion, 3), Req(<<"F", " ">>, NoVersion, 3),
      Req(<<"f">>, <<"1">>, 3), Req(<<"f">>, NoVersion, 4),
      Req(<<"g">>, NoVersion, 3) }

\* results handed to set: JSON-native ones, and (only when faults are on) one
\* that json.dump cannot serialize
PlainResults == {Result("a1", <<"d1">>, "dict"), Result("a2", <<"d1">>, "dict")}
SetResults == IF faults THEN PlainResults \cup {Result("a1", <<"d1">>, "obj")}
              ELSE PlainResults

IoOutcomes == IF faults THEN {"ok", "ioerror"} ELSE {"ok"}

\* had: the kind of the entry file of the call's key before the call ("none":
\* no file); unlinked: whether the call removed that file
Call(op, req, out, fs) ==
    LET key == KeyOf(req)
    IN  [op |-> op, req |-> req, ret |-> out.ret, raised |-> out.raised,
         had |-> IF Has(fs, key) THEN BodyOf(fs, key).kind ELSE "none",
         unlinked |-> Has(fs, key) /\ ~Has(out.files, key)]

NoCall == Call("none", NoReq, Outcome(Absent, "none", <<>>), <<>>)

NoHist == [keys |-> <<>>, ok |-> TRUE, touched |-> FALSE]
BadHist == [keys |-> <<>>, ok |-> FALSE, touched |-> FALSE]

\* hist after a set that wrote key: the keys in the order of their writes, as
\* long as they are distinct and at most max_size + 1
HistSet(h, key, fs) ==
    IF h.ok /\ Len(h.keys) <= MaxSize /\ key \notin {h.keys[i] : i \in DOMAIN h.keys}
    THEN [h EXCEPT !.keys = Append(h.keys, key)]
    ELSE BadHist

\* hist after a get of key that returned ret and left the directory fs;
\* touched: a get has hit the first-written key
HistGet(h, key, ret, pre, fs) ==
    IF fs = <<>> THEN NoHist
    ELSE IF fs # pre THEN BadHist
    ELSE IF h.ok /\ h.keys # <<>> /\ key = h.keys[1] /\ ret # Absent
         THEN [h EXCEPT !.touched = TRUE]
         ELSE h

\* n alternates from one query call to the next
QCall(op, req, useCache, o, n) ==
    [op |-> op, req |-> req, useCache |-> useCache, n |-> n, ret |-> o.ret,
     raised |-> o.raised, engine |-> o.engine, llm |-> o.llm,
     failed |-> o.failed, fallback |-> o.fallback, logged |-> Len(o.events)]

NoQuery ==
    QCall("none", NoReq, FALSE,
          QOut(Absent, "none", <<>>, <<>>, <<>>, FALSE, FALSE, FALSE, FALSE), 0)

\* n alternates from one embed call to the next; before: the chunk count of the
\* collection of (base, version) when the call started
ECall(op, version, chunks, overwrite, o, n, before) ==
    [op |-> op, version |-> version, chunks |-> chunks, overwrite |-> overwrite,
     raised |-> o.raised, logged |-> Len(o.events), deleted |-> o.deleted,
     n |-> n, before |-> before]

NoEmbed ==
    ECall("none", NoVersion, <<>>, FALSE, EOut("none", <<>>, <<>>, FALSE), 0, 0)

\* no function called yet
NoEval == [op |-> "none"]

\* the catalog at the start: the default collection holds one chunk
Catalog == CollectionName :> <<"c1">>

CacheInit(f) ==
    /\ files = <<>>
    /\ now = 0
    /\ last = NoCall
    /\ hist = NoHist
    /\ faults = f
    /\ procs = NoProcs
    /\ monitoring = TRUE
    /\ qlog = <<>>
    /\ qres = NoQuery
    /\ colls = Catalog
    /\ elog = <<>>
    /\ eres = NoEmbed
    /\ pure = NoEval

\* cache.set(query, result, version, k)
Set(req, r, io) ==
    \E out \in {CacheSet(files, now, req, r, io)} :
        /\ files' = out.files
        /\ last' = Call("set", req, out, files)
        /\ hist' = IF out.raised = "none" /\ io = "ok"
                   THEN HistSet(hist, KeyOf(req), out.files)
                   ELSE BadHist
        /\ UNCHANGED <<now, faults, monitoring, procs, pure, queryVars, embedVars>>

\* cache.get(query, version, k)
Get(req) ==
    \E out \in {CacheGet(files, now, KeyOf(req))} :
        /\ files' = out.files
        /\ last' = Call("get", req, out, files)
        /\ hist' = HistGet(hist, KeyOf(req), out.ret, files, out.files)
        /\ UNCHANGED <<now, faults, monitoring, procs, pure, queryVars, embedVars>>

\* cache.clear()
Clear ==
    /\ files' = <<>>
    /\ last' = Call("clear", NoReq, Outcome(Absent, "none", <<>>), files)
    /\ hist' = NoHist
    /\ UNCHANGED <<now, faults, monitoring, procs, pure, queryVars, embedVars>>

\* cache.stats(): the number of entries is read, nothing is changed
Stats ==
    /\ last' = Call("stats", NoReq, Outcome(Absent, "none", files), files)
    /\ UNCHANGED <<files, now, hist, faults, monitoring, procs, pure, queryVars, embedVars>>

\* time passes
Tick ==
    /\ now < MaxTime
    /\ now' = now + 1
    /\ UNCHANGED <<files, last, hist, faults, monitoring, procs, pure, queryVars, embedVars>>

\* the environment damages the entry file of a key (disk fault, foreign writer)
Corrupt(key, kind) ==
    /\ faults
    /\ Has(files, key)
    /\ files' = WriteFile(files, key, Garbage(kind))
    /\ hist' = BadHist
    /\ UNCHANGED <<now, last, faults, monitoring, procs, pure, queryVars, embedVars>>

CacheNext ==
    \/ \E req \in Requests, r \in SetResults, io \in IoOutcomes : Set(req, r, io)
    \/ \E req \in Requests : Get(req)
    \/ Clear
    \/ Stats
    \/ Tick

CacheFaultNext ==
    \/ CacheNext
    \/ \E key \in Keys(files), kind \in CorruptKinds : Corrupt(key, kind)

\* the cache store under its contract: it alone owns the entry files
SpecCache == CacheInit(FALSE) /\ [][CacheNext]_vars

\* the cache store with damaged files and failing writes
SpecCacheFault == CacheInit(TRUE) /\ [][CacheFaultNext]_vars

(***************************************************************************)
(* The cache store under concurrent calls                                  *)
(*                                                                         *)
(* Each call is a sequence of steps, one per access to the directory; the  *)
(* steps of the calls in progress interleave.  A file that open(path, 'w') *)
(* has truncated is empty until the writer's buffer is flushed at close.   *)
(***************************************************************************)
Procs == {"p1", "p2"}

\* the requests of the concurrent calls: three different keys
ConcRequests ==
    <<Req(<<"f">>, NoVersion, 3), Req(<<"g">>, NoVersion, 3), Req(<<"f">>, <<"1">>, 3)>>

\* a file truncated by open(path, 'w') and not written yet
EmptyFile == Garbage("empty")

\* contents json.load raises JSONDecodeError on
Undecodable(body) == body.kind \in {"empty", "badjson"}

\* to_remove that is always 1
ToRemoveOne(n) == 1

\* to_remove = len(cache_files) - self.max_size + 1
ToRemove(n) == n - MaxSize + 1

\* pc: the step the call is about to take.  listed: the glob listing, then the
\* files still to unlink.  linked: the file the call has open for writing is
\* still the one its path names.  handler: unlink is the one of the except
\* handler.  alone: no other call has run since this one started.  before: the
\* number of entries when it started.
Proc(pc, op, req, r, listed, linked, handler, alone, before) ==
    [pc |-> pc, op |-> op, req |-> req, r |-> r, listed |-> listed,
     linked |-> linked, handler |-> handler, alone |-> alone, before |-> before]

Idle == Proc("idle", "none", NoReq, Absent, <<>>, FALSE, FALSE, FALSE, 0)

AllIdle == \A p \in Procs : procs[p].pc = "idle"

\* the calls in progress after p has started a call c: the others no longer
\* run alone
Started(p, c) ==
    [q \in Procs |-> IF q = p THEN c ELSE [procs[q] EXCEPT !.alone = FALSE]]

\* the calls in progress after p's call has gone on to c and the file of key
\* was unlinked: a writer that has it open keeps writing to a file no path names
Unlinked(p, c, key) ==
    [q \in Procs |->
        IF q = p THEN c
        ELSE IF procs[q].pc = "write" /\ KeyOf(procs[q].req) = key
             THEN [procs[q] EXCEPT !.linked = FALSE]
             ELSE procs[q]]

\* the call that has returned last
Returned(c, ret, raised) ==
    [op |-> c.op, ret |-> ret, raised |-> raised, alone |-> c.alone,
     before |-> c.before]

NoReturn ==
    [op |-> "none", ret |-> Absent, raised |-> "none", alone |-> FALSE, before |-> 0]

\* hist: the value of the set that wrote last
NoWrites == [r |-> Absent]

ConcInit(fs) ==
    /\ files = fs
    /\ now = 0
    /\ last = NoReturn
    /\ hist = NoWrites
    /\ faults = FALSE
    /\ monitoring = TRUE
    /\ procs = [p \in Procs |-> Idle]
    /\ qlog = <<>>
    /\ qres = NoQuery
    /\ colls = Catalog
    /\ elog = <<>>
    /\ eres = NoEmbed
    /\ pure = NoEval

\* set, up to cache_files = list(glob("*.json")) and the test of its length
\* (cache.py 93-121)
SetList(p, req, r) ==
    /\ procs[p].pc = "idle"
    /\ procs' = Started(p,
          Proc(IF Len(files) < MaxSize THEN "open" ELSE "sort", "set", req, r,
               [i \in DOMAIN files |-> files[i].key], FALSE, FALSE,
               \A q \in Procs \ {p} : procs[q].pc = "idle", Len(files)))
    /\ UNCHANGED <<files, now, last, hist, faults, monitoring, pure, queryVars,
                   embedVars>>

\* cache_files.sort(key=st_mtime): stat of a listed file that is gone raises
\* FileNotFoundError, which leaves set; else the oldest to_remove are picked
\* (cache.py 124-127)
SetSort(p) ==
    /\ procs[p].pc = "sort"
    /\ LET c == procs[p]
           gone == \E i \in DOMAIN c.listed : ~Has(files, c.listed[i])
           byAge == SelectSeq([i \in DOMAIN files |-> files[i].key],
                              LAMBDA k : \E i \in DOMAIN c.listed : c.listed[i] = k)
       IN  IF gone
           THEN /\ procs' = [procs EXCEPT ![p] = Idle]
                /\ last' = Returned(c, Absent, "FileNotFoundError")
           ELSE /\ procs' = [procs EXCEPT ![p] =
                       [c EXCEPT !.pc = "unlink",
                                 !.listed = SubSeq(byAge, 1, ToRemove(Len(byAge)))]]
                /\ last' = last
    /\ UNCHANGED <<files, now, hist, faults, monitoring, pure, queryVars, embedVars>>

\* one turn of the eviction loop: cache_file.unlink(), the error of a file that
\* is gone logged and swallowed (cache.py 128-133)
SetUnlink(p) ==
    /\ procs[p].pc = "unlink"
    /\ LET c == procs[p]
           key == c.listed[1]
           rest == Tail(c.listed)
       IN  /\ files' = Unlink(files, key)
           /\ procs' = Unlinked(p, [c EXCEPT !.listed = rest,
                                             !.pc = IF rest = <<>> THEN "open"
                                                    ELSE "unlink"], key)
    /\ UNCHANGED <<now, last, hist, faults, monitoring, pure, queryVars, embedVars>>

\* open(cache_path, 'w'): the file is created or truncated (cache.py 108)
SetOpen(p) ==
    /\ procs[p].pc = "open"
    /\ files' = WriteFile(files, KeyOf(procs[p].req), EmptyFile)
    /\ procs' = [procs EXCEPT ![p] = [@ EXCEPT !.pc = "write", !.linked = TRUE]]
    /\ UNCHANGED <<now, last, hist, faults, monitoring, pure, queryVars, embedVars>>

\* json.dump and the close that flushes it (cache.py 109): the entry is written
\* from offset 0 into the file the call opened.  Into a file that another
\* writer has written since it was truncated, the bytes land over the other's:
\* the content is this call's entry or, when the other's was longer, no JSON
\* (garbled).  A file that was unlinked meanwhile is written and lost.
SetWrite(p, garbled) ==
    /\ procs[p].pc = "write"
    /\ LET c == procs[p]
           key == KeyOf(c.req)
           entry == Body("entry", now, JsonDump(c.r), c.r, c.req)
       IN  /\ garbled => c.linked /\ BodyOf(files, key).kind # "empty"
           /\ files' = IF ~c.linked THEN files
                       ELSE IF garbled THEN WriteFile(files, key, Garbage("badjson"))
                       ELSE WriteFile(files, key, entry)
           /\ last' = Returned(c, Absent, "none")
           /\ hist' = [r |-> c.r]
    /\ procs' = [procs EXCEPT ![p] = Idle]
    /\ UNCHANGED <<now, faults, monitoring, pure, queryVars, embedVars>>

\* get, up to cache_path.exists() (cache.py 58-62)
GetExists(p, req) ==
    /\ procs[p].pc = "idle"
    /\ LET c == Proc("read", "get", req, Absent, <<>>, FALSE, FALSE,
                     \A q \in Procs \ {p} : procs[q].pc = "idle", Len(files))
       IN  IF Has(files, KeyOf(req))
           THEN /\ procs' = Started(p, c)
                /\ last' = last
           ELSE /\ procs' = Started(p, Idle)
                /\ last' = Returned(c, Absent, "none")
    /\ UNCHANGED <<files, now, hist, faults, monitoring, pure, queryVars, embedVars>>

\* open, json.load and the test of the timestamp (cache.py 64-75): a file that
\* is gone (IOError) or does not decode goes to the except handler, an expired
\* entry to its unlink, a live one is returned
GetRead(p) ==
    /\ procs[p].pc = "read"
    /\ LET c == procs[p]
           key == KeyOf(c.req)
       IN  IF ~Has(files, key) \/ Undecodable(BodyOf(files, key))
           THEN /\ procs' = [procs EXCEPT ![p] = [c EXCEPT !.pc = "check"]]
                /\ last' = last
           ELSE IF Expired(BodyOf(files, key), now)
           THEN /\ procs' = [procs EXCEPT ![p] = [c EXCEPT !.pc = "unlink"]]
                /\ last' = last
           ELSE /\ procs' = [procs EXCEPT ![p] = Idle]
                /\ last' = Returned(c, JsonLoad(BodyOf(files, key).text), "none")
    /\ UNCHANGED <<files, now, hist, faults, monitoring, pure, queryVars, embedVars>>

\* the except handler's if cache_path.exists() (cache.py 79)
GetCheck(p) ==
    /\ procs[p].pc = "check"
    /\ LET c == procs[p]
       IN  IF Has(files, KeyOf(c.req))
           THEN /\ procs' = [procs EXCEPT ![p] = [c EXCEPT !.pc = "unlink",
                                                           !.handler = TRUE]]
                /\ last' = last
           ELSE /\ procs' = [procs EXCEPT ![p] = Idle]
                /\ last' = Returned(c, Absent, "none")
    /\ UNCHANGED <<files, now, hist, faults, monitoring, pure, queryVars, embedVars>>

\* cache_path.unlink() of get (cache.py 71, 80).  On a file that is gone it
\* raises FileNotFoundError: inside the try that is caught and the handler
\* runs, inside the handler it leaves get.
GetUnlink(p) ==
    /\ procs[p].pc = "unlink" /\ procs[p].op = "get"
    /\ LET c == procs[p]
           key == KeyOf(c.req)
       IN  IF Has(files, key)
           THEN /\ files' = Unlink(files, key)
                /\ procs' = Unlinked(p, Idle, key)
                /\ last' = Returned(c, Absent, "none")
           ELSE IF c.handler
           THEN /\ files' = files
                /\ procs' = [procs EXCEPT ![p] = Idle]
                /\ last' = Returned(c, Absent, "FileNotFoundError")
           ELSE /\ files' = files
                /\ procs' = [procs EXCEPT ![p] = [c EXCEPT !.pc = "check"]]
                /\ last' = last
    /\ UNCHANGED <<now, hist, faults, monitoring, pure, queryVars, embedVars>>

\* the steps of set
SetStep(p) ==
    \/ SetSort(p)
    \/ procs[p].op = "set" /\ SetUnlink(p)
    \/ SetOpen(p)
    \/ \E garbled \in BOOLEAN : SetWrite(p, garbled)

\* the steps of get
GetStep(p) ==
    \/ GetRead(p)
    \/ GetCheck(p)
    \/ GetUnlink(p)

\* concurrent sets, of any of three keys
ConcNext ==
    \E p \in Procs :
        \/ \E i \in DOMAIN ConcRequests :
              SetList(p, ConcRequests[i], Result("a1", <<"d1">>, "dict"))
        \/ SetStep(p)

\* the cache store with set called from several threads or processes at once
SpecCacheConc == ConcInit(<<>>) /\ [][ConcNext]_vars

\* each caller hands set a value of its own
ResultOf(p) == Result(IF p = "p1" THEN "a1" ELSE "a2", <<"d1">>, "dict")

\* the key the callers race on, and the entry of another key that is in the
\* store when they start
RaceRequest == ConcRequests[1]

Bystander ==
    <<[key |-> KeyOf(ConcRequests[2]),
       body |-> Body("entry", 0, JsonDump(ResultOf("p1")), ResultOf("p1"),
                     ConcRequests[2])]>>

\* sets and gets of one key, concurrent
RaceNext ==
    \E p \in Procs :
        \/ SetList(p, RaceRequest, ResultOf(p))
        \/ SetStep(p)
        \/ GetExists(p, RaceRequest)
        \/ GetStep(p)

SpecCacheRace == ConcInit(Bystander) /\ [][RaceNext]_vars

(***************************************************************************)
(* Single-version queries as a state machine                               *)
(***************************************************************************)
MaxLog == 1

\* the queries' (question, version, k): a question, the same question under
\* version "1", and a whitespace-only question
QRequests ==
    { Req(<<"f">>, NoVersion, 3), Req(<<"f">>, <<"1">>, 3),
      Req(<<" ">>, NoVersion, 3) }

\* damage to an entry file that get recovers from, and damage it does not
QCorruptKinds == {"badjson", "nonobj"}

QOutcomes == IF faults THEN FaultOutcomes ELSE NominalOutcomes

QueryInit(f) ==
    /\ files = <<>>
    /\ now = 0
    /\ last = NoCall
    /\ hist = NoHist
    /\ faults = f
    /\ procs = NoProcs
    /\ monitoring \in (IF f THEN BOOLEAN ELSE {TRUE})
    /\ qlog = <<>>
    /\ qres = NoQuery
    /\ colls = Catalog
    /\ elog = <<>>
    /\ eres = NoEmbed
    /\ pure = NoEval

\* query_docs(question, version=version, k=k, use_cache=useCache)
QueryDocsCall(req, useCache, x) ==
    \E o \in {QueryDocs(files, now, colls, monitoring, req, useCache, x)} :
        /\ Len(qlog) < MaxLog
        /\ EmptyQuestion(req.q) => x = Healthy
        /\ files' = o.files
        /\ colls' = o.colls
        /\ qlog' = qlog \o o.events
        /\ qres' = QCall("query_docs", req, useCache, o, 1 - qres.n)
        /\ UNCHANGED <<now, last, hist, faults, monitoring, procs, pure, elog, eres>>

\* query_simple(question, version=version, k=k)
QuerySimpleCall(req, x) ==
    \E o \in {QuerySimple(files, now, colls, monitoring, req, x)} :
        /\ Len(qlog) < MaxLog
        /\ EmptyQuestion(req.q) => x = Healthy
        /\ files' = o.files
        /\ colls' = o.colls
        /\ qlog' = qlog \o o.events
        /\ qres' = QCall("query_simple", req, FALSE, o, 1 - qres.n)
        /\ UNCHANGED <<now, last, hist, faults, monitoring, procs, pure, elog, eres>>

\* time passes between queries, up to the age at which an entry written at the
\* start has expired
Elapse ==
    /\ now <= TTL
    /\ now' = now + 1
    /\ UNCHANGED <<files, last, hist, faults, monitoring, procs, pure, queryVars, embedVars>>

\* queries.jsonl is rotated by operational tooling
RotateLog ==
    /\ qlog # <<>>
    /\ qlog' = <<>>
    /\ UNCHANGED <<cacheVars, faults, monitoring, procs, pure, qres, embedVars>>

QueryNext ==
    \/ \E req \in QRequests, useCache \in BOOLEAN, x \in QOutcomes :
          QueryDocsCall(req, useCache, x)
    \/ \E req \in QRequests, x \in QOutcomes : QuerySimpleCall(req, x)
    \/ RotateLog
    \/ Elapse

QueryFaultNext ==
    \/ QueryNext
    \/ \E key \in Keys(files), kind \in QCorruptKinds : Corrupt(key, kind)

\* the query paths over a cache whose files only the cache writes, with the
\* usage log on and writable
SpecQuery == QueryInit(FALSE) /\ [][QueryNext]_vars

\* the query paths with damaged cache files, failing file writes, a failing or
\* disabled usage log
SpecQueryFault == QueryInit(TRUE) /\ [][QueryFaultNext]_vars

(***************************************************************************)
(* Multi-version queries as a state machine                                *)
(***************************************************************************)
V1 == <<"1">>
V2 == <<"2">>

\* the version lists handed in: none, one, and two versions in both orders
VersionLists == {<<>>, <<V1>>, <<V1, V2>>, <<V2, V1>>}

\* the questions handed in: a question and a whitespace-only one
MQuestions == {<<"f">>, <<" ">>}

\* the single-version query issued between the multi-version ones: one with a
\* whitespace-only question (the others are issued by compare_versions)
MRequests == {Req(<<" ">>, NoVersion, 3)}

\* no version opens
NoneOpen ==
    [opened |-> {}, r |-> "ok", ch |-> "ok", ans |-> "a1", io |-> "ok", lg |-> "ok"]

ValidVersionLists == VersionLists \ {<<>>}

\* the outcomes of a single-version query inside compare_versions: it fails at
\* the opening of the collection, or it answers
MOutcomes == {x \in NominalOutcomes : x.r1 = "ok" /\ x.ch = "ok"}

\* the outcomes of the external calls of an ensemble query; a field that cannot
\* matter is held at its first value.  One answer text: a cached result and a
\* computed one are told apart by the calls made.
EnsembleOutcomes ==
    {x \in [opened : SUBSET {V1, V2}, r : {"ok", "fallback", "empty", "err"},
            ch : {"ok", "err"}, ans : {"a1"}, io : {"ok"}, lg : {"ok"}] :
        /\ x.opened = {} => x.r = "ok"
        /\ x.r = "err" => x.ch = "ok"
        /\ (x.opened = {} \/ x.r = "err" \/ x.ch = "err") => x.ans = "a1"}

\* one collection per version, each holding a chunk
VersionCatalog ==
    (FinalName(CollectionName, V1) :> <<"c1">>)
        @@ (FinalName(CollectionName, V2) :> <<"c2">>)

MultiInit ==
    /\ files = <<>>
    /\ now = 0
    /\ last = NoCall
    /\ hist = NoHist
    /\ faults = FALSE
    /\ procs = NoProcs
    /\ monitoring = TRUE
    /\ qlog = <<>>
    /\ qres = NoQuery
    /\ colls = VersionCatalog
    /\ elog = <<>>
    /\ eres = NoEmbed
    /\ pure = NoEval

\* query_multiple_versions(question, versions, k=3); qres.req.opened: the
\* versions whose collection the call opened
EnsembleStep(q, versions, x) ==
    \E o \in {QueryMultipleVersions(files, now, colls, monitoring, q, versions, 3, x)} :
        /\ x.opened \subseteq {versions[i] : i \in DOMAIN versions}
        /\ Len(qlog) + Len(o.events) <= MaxLog
        /\ files' = o.files
        /\ colls' = o.colls
        /\ qlog' = qlog \o o.events
        /\ qres' = QCall("query_multiple_versions",
                         [q |-> q, v |-> versions, k |-> 3,
                          opened |-> IF o.engine
                                     THEN SelectSeq(versions, LAMBDA v : v \in x.opened)
                                     ELSE <<>>],
                         TRUE, o, 1 - qres.n)
        /\ UNCHANGED <<now, last, hist, faults, monitoring, procs, elog, eres>>

QueryEnsembleCall(q, versions, x) == EnsembleStep(q, versions, x) /\ UNCHANGED pure

\* compare_versions(question, versions, k=3)
CompareVersionsCall(q, versions, xs) ==
    \E o \in {CompareVersions(files, now, colls, monitoring, q, versions, 3, xs)} :
        /\ Len(qlog) < MaxLog
        /\ files' = o.files
        /\ colls' = o.colls
        /\ qlog' = qlog \o o.events
        /\ qres' = QCall("compare_versions", Req(q, versions, 3), TRUE, o, 1 - qres.n)
        /\ UNCHANGED <<now, last, hist, faults, monitoring, procs, pure, elog, eres>>

MultiNext ==
    \/ \E versions \in ValidVersionLists, x \in EnsembleOutcomes :
          QueryEnsembleCall(<<"f">>, versions, x)
    \/ \E q \in MQuestions, versions \in VersionLists :
          /\ EmptyQuestion(q) \/ versions = <<>>
          /\ QueryEnsembleCall(q, versions, NoneOpen)
    \/ \E versions \in VersionLists, xs \in [1..2 -> MOutcomes] :
          /\ Len(versions) >= 2
          /\ CompareVersionsCall(<<"f">>, versions, xs)
    \/ \E q \in MQuestions, versions \in VersionLists :
          /\ EmptyQuestion(q) \/ Len(versions) < 2
          /\ CompareVersionsCall(q, versions, <<Healthy, Healthy>>)
    \/ \E req \in MRequests : QueryDocsCall(req, TRUE, Healthy)
    \/ \E req \in MRequests : QuerySimpleCall(req, Healthy)
    \/ RotateLog

SpecMulti == MultiInit /\ [][MultiNext]_vars

(***************************************************************************)
(* Ensemble queries over time                                              *)
(***************************************************************************)
\* two spellings of one question
EQuestions == {<<"f">>, <<"F">>}

EVersionLists == {<<V1, V2>>, <<V2, V1>>}

\* retrieval and generation work; any of the versions may fail to open
EOpenings == {x \in EnsembleOutcomes : x.r = "ok" /\ x.ch = "ok"}

\* query_multiple_versions(question, versions, k=3); pure.available: the
\* versions whose collection could be opened while the call ran
EnsembleCall(q, versions, x) ==
    /\ EnsembleStep(q, versions, x)
    /\ pure' = [op |-> "get_vector_db", available |-> x.opened]

EnsembleNext ==
    \/ \E q \in EQuestions, versions \in EVersionLists, x \in EOpenings :
          EnsembleCall(q, versions, x)
    \/ Elapse
    \/ RotateLog

SpecEnsemble == MultiInit /\ [][EnsembleNext]_vars

(***************************************************************************)
(* Embedding as a state machine                                            *)
(***************************************************************************)
MaxChunks == 3

Versions == {NoVersion, <<"1">>}

\* the chunks of the files embedded
Batches == {<<"c1">>, <<"c2", "c3">>}

EOutcomes ==
    {x \in [open : {"ok", "err"}, write : {"ok", "err"},
            lg : IF faults THEN {"ok", "fail"} ELSE {"ok"}] : TRUE}

\* a catalog with no collection
NoCollections == [name \in {} |-> <<>>]

EmbedInit ==
    /\ files = <<>>
    /\ now = 0
    /\ last = NoCall
    /\ hist = NoHist
    /\ faults = FALSE
    /\ procs = NoProcs
    /\ monitoring = TRUE
    /\ qlog = <<>>
    /\ qres = NoQuery
    /\ colls = NoCollections
    /\ elog = <<>>
    /\ eres = NoEmbed
    /\ pure = NoEval

\* embed_file(file, version=version, overwrite=overwrite) on a file that splits
\* into chunks
EmbedFileCall(version, chunks, overwrite, x) ==
    \E o \in {EmbedFile(colls, monitoring, version, chunks, overwrite, x)} :
        /\ Len(elog) < MaxLog
        /\ \A name \in DOMAIN colls : Len(colls[name]) + Len(chunks) <= MaxChunks
        /\ colls' = o.colls
        /\ elog' = elog \o o.events
        /\ eres' = ECall("embed_file", version, chunks, overwrite, o, 1 - eres.n,
                         IF Exists(colls, FinalName(CollectionName, version))
                         THEN Len(colls[FinalName(CollectionName, version)])
                         ELSE 0)
        /\ UNCHANGED <<cacheVars, faults, monitoring, procs, pure, queryVars>>

\* embeddings.jsonl is rotated by operational tooling
RotateEmbedLog ==
    /\ elog # <<>>
    /\ elog' = <<>>
    /\ UNCHANGED <<cacheVars, faults, monitoring, procs, pure, queryVars, colls, eres>>

EmbedNext ==
    \/ \E version \in Versions, chunks \in Batches, overwrite \in BOOLEAN,
          x \in EOutcomes : EmbedFileCall(version, chunks, overwrite, x)
    \/ RotateEmbedLog

SpecEmbed == EmbedInit /\ [][EmbedNext]_vars

(***************************************************************************)
(* Directory embedding as a state machine                                  *)
(***************************************************************************)
\* the files of the directories embedded: one file of two chunks, two files of
\* one chunk each
Directories == {<< <<"c2", "c3">> >>, << <<"c2">>, <<"c3">> >>}

RECURSIVE Flatten(_)
Flatten(dir) == IF dir = <<>> THEN <<>> ELSE dir[1] \o Flatten(Tail(dir))

\* the last embed_directory call, in the shape of ECall
DCall(version, dir, overwrite, o, n, before) ==
    [op |-> "embed_directory", version |-> version, chunks |-> Flatten(dir),
     overwrite |-> overwrite, raised |-> "none", logged |-> Len(o.events),
     deleted |-> FALSE, n |-> n, before |-> before, success |-> o.success,
     failed |-> o.failed]

\* embed_directory(directory, version=version, overwrite=overwrite)
EmbedDirectoryCall(version, dir, overwrite, xs) ==
    \E o \in {EmbedDirectory(colls, monitoring, version, dir, overwrite, xs)} :
        /\ Len(elog) < MaxLog
        /\ \A name \in DOMAIN colls :
              Len(colls[name]) + Len(Flatten(dir)) <= MaxChunks
        /\ colls' = o.colls
        /\ elog' = elog \o o.events
        /\ eres' = DCall(version, dir, overwrite, o, 1 - eres.n,
                         Count(colls, FinalName(CollectionName, version)))
        /\ UNCHANGED <<cacheVars, faults, monitoring, procs, pure, queryVars>>

EmbedDirNext ==
    \/ \E version \in Versions, dir \in Directories, overwrite \in BOOLEAN :
          \E xs \in [DOMAIN dir -> EOutcomes] :
             EmbedDirectoryCall(version, dir, overwrite, xs)
    \/ \E version \in Versions, chunks \in Batches, x \in EOutcomes :
          EmbedFileCall(version, chunks, FALSE, x)
    \/ RotateEmbedLog

SpecEmbedDir == EmbedInit /\ [][EmbedDirNext]_vars

(***************************************************************************)
(* Concurrent writes to a collection                                       *)
(*                                                                         *)
(* One caller runs embed_file(..., overwrite=True), another                *)
(* embed_file(..., overwrite=False); each engine call is a step.           *)
(***************************************************************************)
\* a call that waits until no other call is in progress
BlockedByOther(ps, p) == \E q \in DOMAIN ps \ {p} : ps[q].pc # "idle"

\* embed_file takes no lock and waits for nothing: a step is never held back
\* by another call
Blocked(ps, p) == FALSE

\* version, chunks: the arguments.  name: the collection the Chroma object of
\* the call stands for.  stale: that collection was deleted after the object
\* was made.
Writer(pc, version, chunks, name, stale) ==
    [pc |-> pc, version |-> version, chunks |-> chunks, name |-> name,
     stale |-> stale]

NoWriter == Writer("idle", NoVersion, <<>>, <<>>, FALSE)

\* what the appends to a collection that was deleted under the caller may do:
\* raise, or be accepted and not be seen again
StaleOutcomes == {"err", "lost"}

\* the last embed_file call to return
WCall(op, c, overwrite, raised, logged) ==
    [op |-> op, version |-> c.version, chunks |-> c.chunks, overwrite |-> overwrite,
     raised |-> raised, logged |-> logged, deleted |-> overwrite, n |-> 1 - eres.n,
     before |-> 0, stale |-> c.stale]

\* room for the chunks of both callers, and for an event
Room ==
    /\ Len(elog) < MaxLog
    /\ \A name \in DOMAIN colls : Len(colls[name]) + 2 <= MaxChunks

WritersInit ==
    /\ files = <<>>
    /\ now = 0
    /\ last = NoCall
    /\ hist = NoHist
    /\ faults = FALSE
    /\ monitoring = TRUE
    /\ procs = [p \in {"ow", "inc"} |-> NoWriter]
    /\ qlog = <<>>
    /\ qres = NoQuery
    /\ colls = Catalog
    /\ elog = <<>>
    /\ eres = NoEmbed
    /\ pure = NoEval

\* the Chroma objects on the collection name that was deleted are stale
Deleted(p, c, name) ==
    [q \in DOMAIN procs |->
        IF q = p THEN c
        ELSE IF procs[q].pc = "append" /\ procs[q].name = name
             THEN [procs[q] EXCEPT !.stale = TRUE]
             ELSE procs[q]]

\* overwrite: existing_db = Chroma(collection_name=final_collection_name, ...)
\* (embed.py 107-115)
OwOpen(p, version) ==
    /\ procs[p].pc = "idle" /\ ~Blocked(procs, p) /\ Room
    /\ colls' = ChromaOpen(colls, FinalName(CollectionName, version))
    /\ procs' = [procs EXCEPT ![p] =
                    Writer("delete", version, <<"c2">>,
                           FinalName(CollectionName, version), FALSE)]
    /\ UNCHANGED <<cacheVars, faults, monitoring, pure, queryVars, elog, eres>>

\* overwrite: existing_db.delete_collection() (embed.py 116)
OwDelete(p) ==
    /\ procs[p].pc = "delete" /\ ~Blocked(procs, p)
    /\ colls' = DeleteCollection(colls, procs[p].name)
    /\ procs' = Deleted(p, [procs[p] EXCEPT !.pc = "create"], procs[p].name)
    /\ UNCHANGED <<cacheVars, faults, monitoring, pure, queryVars, elog, eres>>

\* Chroma.from_documents(chunks, ..., collection_name=final_collection_name)
\* and the log_embedding that follows (embed.py 122-127, 146-164)
Create(p, overwrite) ==
    /\ procs[p].pc = "create" /\ ~Blocked(procs, p)
    /\ LET c == procs[p]
           evs == LogEmbedding(monitoring, c.version, c.name, Len(c.chunks), "ok")
       IN  /\ colls' = FromDocuments(colls, c.name, c.chunks)
           /\ elog' = elog \o evs
           /\ eres' = WCall("embed_file", c, overwrite, "none", Len(evs))
    /\ procs' = [procs EXCEPT ![p] = NoWriter]
    /\ UNCHANGED <<cacheVars, faults, monitoring, pure, queryVars>>

\* incremental: get_or_create_collection(final_collection_name, embedding,
\* version) (embed.py 131-135): the open brings the checked collection into
\* being and the count succeeds, or the open fails and it "does not exist"
IncCheck(p, version, open) ==
    /\ procs[p].pc = "idle" /\ ~Blocked(procs, p) /\ Room
    /\ LET final == FinalName(CollectionName, version)
           checked == CheckedName(final, version)
       IN  IF open = "ok"
           THEN /\ colls' = ChromaOpen(colls, checked)
                /\ procs' = [procs EXCEPT ![p] =
                                Writer("append", version, <<"c3">>, checked, FALSE)]
           ELSE /\ colls' = colls
                /\ procs' = [procs EXCEPT ![p] =
                                Writer("create", version, <<"c3">>, final, FALSE)]
    /\ UNCHANGED <<cacheVars, faults, monitoring, pure, queryVars, elog, eres>>

\* incremental: db.add_documents(chunks) on the object of the check, and the
\* log_embedding that follows (embed.py 141, 154-164)
IncAppend(p, stale) ==
    /\ procs[p].pc = "append" /\ ~Blocked(procs, p)
    /\ LET c == procs[p]
           final == FinalName(CollectionName, c.version)
           evs == LogEmbedding(monitoring, c.version, final, Len(c.chunks), "ok")
       IN  IF ~c.stale
           THEN /\ colls' = AddDocuments(colls, c.name, c.chunks)
                /\ elog' = elog \o evs
                /\ eres' = WCall("embed_file", c, FALSE, "none", Len(evs))
           ELSE IF stale = "err"
           THEN /\ colls' = colls
                /\ elog' = elog
                /\ eres' = WCall("embed_file", c, FALSE, "EngineError", 0)
           ELSE /\ colls' = colls
                /\ elog' = elog \o evs
                /\ eres' = WCall("embed_file", c, FALSE, "none", Len(evs))
    /\ procs' = [procs EXCEPT ![p] = NoWriter]
    /\ UNCHANGED <<cacheVars, faults, monitoring, pure, queryVars>>

WritersNext ==
    \/ \E version \in Versions : OwOpen("ow", version)
    \/ OwDelete("ow")
    \/ Create("ow", TRUE)
    \/ \E version \in Versions, open \in {"ok", "err"} : IncCheck("inc", version, open)
    \/ \E stale \in StaleOutcomes : IncAppend("inc", stale)
    \/ Create("inc", FALSE)
    \/ RotateEmbedLog

SpecEmbedConc == WritersInit /\ [][WritersNext]_vars

(***************************************************************************)
(* Collection naming                                                       *)
(***************************************************************************)
\* base names and versions as callers may pass them: any text, a "-v" inside
\* included
BaseNames == {<<"docs">>, <<"docs", "-v", "1">>, <<"kb">>}

VersionTexts == {NoVersion, <<"1">>, <<"2">>, <<"1", "-v", "2">>}

Identities == {[base |-> b, version |-> v] : b \in BaseNames, v \in VersionTexts}

\* the logical identities of two callers
NamesInit ==
    /\ files = <<>>
    /\ now = 0
    /\ last = NoCall
    /\ hist = NoHist
    /\ faults = FALSE
    /\ procs = NoProcs
    /\ monitoring = TRUE
    /\ qlog = <<>>
    /\ qres = NoQuery
    /\ colls = Catalog
    /\ elog = <<>>
    /\ eres = NoEmbed
    /\ pure \in {[op |-> "ids", a |-> a, b |-> b] : a \in Identities, b \in Identities}

\* both callers resolve their physical name: get_vector_db(a.base, a.version) and
\* generate_collection_name(a.base, a.version), the same for b
ResolveNames ==
    /\ pure.op = "ids"
    /\ pure' = [op |-> "names", a |-> pure.a, b |-> pure.b,
                na |-> FinalName(pure.a.base, pure.a.version),
                nb |-> FinalName(pure.b.base, pure.b.version),
                ga |-> GenerateCollectionName(pure.a.base, pure.a.version),
                gb |-> GenerateCollectionName(pure.b.base, pure.b.version)]
    /\ UNCHANGED <<cacheVars, faults, monitoring, procs, queryVars, embedVars>>

\* the next pair of callers
NextIdentities ==
    /\ pure.op = "names"
    /\ \E a \in Identities, b \in Identities : pure' = [op |-> "ids", a |-> a, b |-> b]
    /\ UNCHANGED <<cacheVars, faults, monitoring, procs, queryVars, embedVars>>

NamesNext == ResolveNames \/ NextIdentities

SpecNames == NamesInit /\ [][NamesNext]_vars

(***************************************************************************)
(* Statistics as a state machine                                           *)
(***************************************************************************)
MaxLines == 5
MaxDamagedLines == 3

\* the lines log_query writes: in the window, cached or not, one of two
\* spellings of a question; or out of the window
QueryLines ==
    {Line("event", TRUE, c, q, 0) : c \in BOOLEAN, q \in {<<"f">>, <<"F">>}}
        \cup {Line("event", FALSE, FALSE, <<"f">>, 0)}

\* the lines log_embedding writes
EmbeddingLines ==
    {Line("event", TRUE, FALSE, <<>>, 1), Line("event", TRUE, FALSE, <<>>, 2),
     Line("event", FALSE, FALSE, <<>>, 1)}

DamagedQueryLines ==
    {Malformed(kind) : kind \in {"badjson", "nonobj", "no_ts", "bad_ts",
                                  "no_query", "null_query"}}

DamagedEmbeddingLines ==
    {Malformed(kind) : kind \in {"badjson", "nonobj", "no_ts", "bad_ts"}}

\* the files of at most n lines
Files(lines, n) ==
    {Missing} \cup UNION {{LogFile(s) : s \in [1..m -> lines]} : m \in 0..n}

StatsInit(f) ==
    /\ files = <<>>
    /\ now = 0
    /\ last = NoCall
    /\ hist = NoHist
    /\ faults = f
    /\ procs = NoProcs
    /\ monitoring = TRUE
    /\ qlog = <<>>
    /\ qres = NoQuery
    /\ colls = Catalog
    /\ elog = <<>>
    /\ eres = NoEmbed
    /\ pure \in
         IF f
         THEN {[op |-> "queries.jsonl", file |-> x] :
                 x \in Files(QueryLines \cup DamagedQueryLines, MaxDamagedLines)}
              \cup {[op |-> "embeddings.jsonl", file |-> x] :
                 x \in Files(EmbeddingLines \cup DamagedEmbeddingLines,
                             MaxDamagedLines)}
         ELSE {[op |-> "queries.jsonl", file |-> x] : x \in Files(QueryLines, MaxLines)}
              \cup {[op |-> "embeddings.jsonl", file |-> x] :
                 x \in Files(EmbeddingLines, MaxLines)}

\* get_query_stats() on the file
GetQueryStatsCall ==
    /\ pure.op = "queries.jsonl"
    /\ pure' = [op |-> "get_query_stats", file |-> pure.file,
                ret |-> GetQueryStats(pure.file)]
    /\ UNCHANGED <<cacheVars, faults, monitoring, procs, queryVars, embedVars>>

\* get_embedding_stats() on the file
GetEmbeddingStatsCall ==
    /\ pure.op = "embeddings.jsonl"
    /\ pure' = [op |-> "get_embedding_stats", file |-> pure.file,
                ret |-> GetEmbeddingStats(pure.file)]
    /\ UNCHANGED <<cacheVars, faults, monitoring, procs, queryVars, embedVars>>

StatsNext == GetQueryStatsCall \/ GetEmbeddingStatsCall

\* logs that hold only what log_query and log_embedding wrote
SpecStats == StatsInit(FALSE) /\ [][StatsNext]_vars

\* logs with damaged lines among them
SpecStatsFault == StatsInit(TRUE) /\ [][StatsNext]_vars

(***************************************************************************)
(* Claims about the cache store                                            *)
(***************************************************************************)
Entries(fs) == {fs[i].body : i \in DOMAIN fs}

\* two question texts that differ at most in letter case and in leading or
\* trailing whitespace
SameQuestion(q1, q2) == Strip(Lower(q1)) = Strip(Lower(q2))

\* a step that is a call op of the cache API (a Tick leaves last alone)
IsCall(op) == now' = now /\ last'.op = op

\* C1: a get(q, v, k) returns exactly the r of the set(q, r, v, k) whose entry is
\* still in the store and not expired, and returns absent when the store holds
\* no entry for the key
C1_SetThenGet ==
    [][IsCall("get") =>
         /\ \A b \in Entries(files) :
               (b.by = last'.req /\ ~Expired(b, now))
                   => (last'.raised = "none" /\ last'.ret = b.given)
         /\ ~Has(files, KeyOf(last'.req)) => last'.ret = Absent]_vars

C1_Witness ==
    /\ last.op = "get"
    /\ last.ret \in PlainResults
    /\ \E b \in Entries(files) : b.by = last.req /\ b.given = last.ret

\* C2: a get hits the entry of a set whose question differs only in case or
\* outer whitespace (same version, same k), and a hit never comes from an entry
\* that was set with another version or another k
C2_KeyNormalised ==
    [][IsCall("get") =>
         LET req == last'.req
         IN  /\ \A b \in Entries(files) :
                   (/\ SameQuestion(b.by.q, req.q)
                    /\ b.by.v = req.v /\ b.by.k = req.k
                    /\ ~Expired(b, now))
                       => last'.ret = b.given
             /\ last'.ret # Absent =>
                   \E b \in Entries(files) :
                       /\ SameQuestion(b.by.q, req.q)
                       /\ b.by.v = req.v /\ b.by.k = req.k
                       /\ last'.ret = b.given]_vars

C2_Witness ==
    /\ last.op = "get"
    /\ last.ret # Absent
    /\ \E b \in Entries(files) :
          /\ b.by.q # last.req.q
          /\ SameQuestion(b.by.q, last.req.q)
          /\ b.given = last.ret
    /\ \E b \in Entries(files) :
          /\ b.by.q = last.req.q
          /\ b.by.v # last.req.v \/ b.by.k # last.req.k
          /\ b.given # last.ret

\* C3: after sets of max_size + 1 distinct keys on an empty store, the store
\* holds max_size entries, all keys but the first-written one; before that it
\* holds every key written; gets that hit the first-written key change nothing
C3_FifoEviction ==
    hist.ok =>
        IF Len(hist.keys) = MaxSize + 1
        THEN /\ Len(files) = MaxSize
             /\ Keys(files) = {hist.keys[i] : i \in 2..(MaxSize + 1)}
        ELSE /\ Len(files) = Len(hist.keys)
             /\ Keys(files) = {hist.keys[i] : i \in DOMAIN hist.keys}

C3_Witness ==
    /\ hist.ok
    /\ hist.touched
    /\ Len(hist.keys) = MaxSize + 1
    /\ ~Has(files, hist.keys[1])

\* C4: a get on a key whose entry is older than ttl returns absent and removes
\* that entry; a get removes no entry of another key and no entry that is not
\* expired; stats and the passing of time remove nothing; set removes only the
\* len - max_size + 1 oldest-written files, whatever their age
C4_LazyExpiry ==
    [][/\ IsCall("get") =>
            LET key == KeyOf(last'.req)
            IN  /\ (Has(files, key) /\ Expired(BodyOf(files, key), now))
                       => (last'.ret = Absent /\ ~Has(files', key))
                /\ (Has(files, key) /\ ~Expired(BodyOf(files, key), now))
                       => Has(files', key)
                /\ Keys(files) \ {key} \subseteq Keys(files')
       /\ IsCall("stats") => files' = files
       /\ now' # now => files' = files
       /\ IsCall("set") =>
               Keys(files) \ Keys(files')
                   \subseteq {files[i].key : i \in 1..(Len(files) - MaxSize + 1)}
      ]_vars

C4_Witness ==
    /\ last.op = "get"
    /\ last.unlinked
    /\ last.ret = Absent
    /\ \E b \in Entries(files) : Expired(b, now)

\* C5: get on a key whose entry file is damaged returns absent, raises nothing,
\* and leaves no entry file for the key
C5_FailsClosed ==
    (last.op = "get" /\ last.had \in CorruptKinds)
        => /\ last.ret = Absent
           /\ last.raised = "none"
           /\ ~Has(files, KeyOf(last.req))

(***************************************************************************)
(* Claims about single-version queries                                     *)
(***************************************************************************)
\* a step that is a call of query_docs or of query_simple
IsQuery(ops) == qres'.n # qres.n /\ qres'.op \in ops

\* the store holds an entry for the request that a get at time t returns
Live(fs, t, req) ==
    /\ Has(fs, KeyOf(req))
    /\ BodyOf(fs, KeyOf(req)).kind = "entry"
    /\ ~Expired(BodyOf(fs, KeyOf(req)), t)

\* C6: a query whose engine and model calls all succeed returns a result,
\* whatever happens inside the cache store and the usage log
C6_CacheErrorsContained ==
    (qres.op \in {"query_docs", "query_simple"} /\ ~EmptyQuestion(qres.req.q))
        => (qres.raised = "none" /\ qres.ret # Absent)

\* C7: query_docs with caching on and a live entry for (question, version, k)
\* returns the entry's result, appends exactly one event cached=true, and calls
\* neither the engine nor the model
C7_HitServedFromCache ==
    [][(IsQuery({"query_docs"}) /\ qres'.useCache /\ Live(files, now, qres'.req))
         => /\ qres'.raised = "none"
            /\ qres'.ret = BodyOf(files, KeyOf(qres'.req)).given
            /\ qlog' = Append(qlog, QueryEvent(qres'.req.q, qres'.req.v, TRUE))
            /\ ~qres'.engine /\ ~qres'.llm
            /\ colls' = colls]_vars

C7_Witness ==
    /\ qres.op = "query_docs" /\ qres.useCache
    /\ qres.ret # Absent /\ ~qres.engine /\ ~qres.llm
    /\ qlog = <<QueryEvent(qres.req.q, qres.req.v, TRUE)>>

\* C8: a query, in either mode, that finds no live entry and succeeds leaves a
\* live entry holding its result under (question, version, k) and appends
\* exactly one event cached=false
C8_MissStoresAndLogs ==
    [][(/\ IsQuery({"query_docs", "query_simple"})
        /\ qres'.op = "query_docs" => qres'.useCache
        /\ ~Live(files, now, qres'.req)
        /\ qres'.raised = "none")
         => /\ Live(files', now, qres'.req)
            /\ BodyOf(files', KeyOf(qres'.req)).given.answer = qres'.ret.answer
            /\ BodyOf(files', KeyOf(qres'.req)).given.docs = qres'.ret.docs
            /\ qlog' = Append(qlog, QueryEvent(qres'.req.q, qres'.req.v, FALSE))]_vars

\* C9: a query in which an engine or model call failed raises; it returns no
\* answer
C9_FailuresPropagate ==
    (qres.op \in {"query_docs", "query_simple"} /\ qres.failed)
        => (qres.raised # "none" /\ qres.ret = Absent)

(***************************************************************************)
(* Claims about embedding                                                  *)
(***************************************************************************)
IsEmbed == eres'.n # eres.n /\ eres'.op = "embed_file"

\* C10: an incremental write of chunks for (base_name, version) that succeeds
\* leaves the collection of (base_name, version) in being, holding what it held
\* before (nothing when it did not exist) plus the chunks written
C10_IncrementalAppends ==
    [][(IsEmbed /\ ~eres'.overwrite /\ eres'.raised = "none")
         => LET name == FinalName(CollectionName, eres'.version)
            IN  /\ Exists(colls', name)
                /\ Len(colls'[name]) = Count(colls, name) + Len(eres'.chunks)]_vars

\* C11: an overwrite write of chunks C that succeeds on a collection that
\* exists and is not empty leaves the collection holding exactly C
C11_OverwriteReplaces ==
    [][(/\ IsEmbed /\ eres'.overwrite /\ eres'.raised = "none"
        /\ Count(colls, FinalName(CollectionName, eres'.version)) > 0)
         => LET name == FinalName(CollectionName, eres'.version)
            IN  /\ Exists(colls', name)
                /\ colls'[name] = eres'.chunks]_vars

\* C12: an overwrite write whose create step fails after its delete step raises,
\* appends no success event, and leaves the collection absent or empty
C12_DeleteBeforeCreate ==
    [][(IsEmbed /\ eres'.overwrite /\ eres'.deleted /\ eres'.raised # "none")
         => /\ Count(colls', FinalName(CollectionName, eres'.version)) = 0
            /\ elog' = elog]_vars

\* an overwrite write of an existing non-empty collection deleted it and then
\* failed to create it
C12_Witness ==
    /\ eres.op = "embed_file" /\ eres.overwrite /\ eres.deleted
    /\ eres.raised # "none"
    /\ eres.before > 0
    /\ Count(colls, FinalName(CollectionName, eres.version)) = 0

(***************************************************************************)
(* Claims about collection naming                                          *)
(***************************************************************************)
\* C13: the physical name is base_name without a version and base_name + "-v" +
\* version with one, by both naming functions, and two different identities
\* never get the same physical name
C13_NamingInjective ==
    pure.op = "names"
        => /\ pure.na = (IF pure.a.version = NoVersion THEN pure.a.base
                         ELSE pure.a.base \o <<"-v">> \o pure.a.version)
           /\ pure.ga = pure.na /\ pure.gb = pure.nb
           /\ pure.a # pure.b => pure.na # pure.nb

(***************************************************************************)
(* Claims about multi-version queries                                      *)
(***************************************************************************)
\* a compare_versions call that passed its input checks
Compared ==
    /\ qres.op = "compare_versions"
    /\ ~EmptyQuestion(qres.req.q) /\ Len(qres.req.v) >= 2

\* C14: compare_versions does not raise; the entry of a version whose query
\* failed has an error and no answer, and the entry of every version whose query
\* succeeded has that query's answer
C14_FailedVersionIsolated ==
    Compared
        => /\ qres.raised = "none"
           /\ \A i \in DOMAIN qres.ret.entries :
                LET e == qres.ret.entries[i]
                IN  IF e.qok THEN e.answer = e.qanswer /\ e.answer # ""
                    ELSE e.error # "none" /\ e.answer = ""

\* C15: the entry of every version whose query succeeded, computed or served
\* from the cache, has no error, that query's answer and at most 3 sources
C15_CompareFromCache ==
    (Compared /\ qres.raised = "none")
        => \A i \in DOMAIN qres.ret.entries :
                qres.ret.entries[i].qok
                    => /\ qres.ret.entries[i].error = "none"
                       /\ qres.ret.entries[i].answer = qres.ret.entries[i].qanswer
                       /\ Len(qres.ret.entries[i].sources) <= 3

\* an ensemble call that went past the cache lookup to the opening of versions
Opening == qres.op = "query_multiple_versions" /\ qres.engine

\* C16: an ensemble query raises "no valid versions" exactly when none of the
\* requested versions opened; with at least one opened and retrieval and
\* generation working it answers, its documents those of the opened versions
C16_SkipsUnopenedVersions ==
    Opening
        => /\ (qres.raised = "NoValidVersions") <=> (qres.req.opened = <<>>)
           /\ qres.req.opened # <<>>
                => /\ qres.raised \in {"none", "RetrievalError", "GenerationError"}
                   /\ qres.raised = "none"
                        => /\ qres.ret.answer # ""
                           /\ \A i \in DOMAIN qres.ret.docs :
                                \E j \in DOMAIN qres.req.opened :
                                   LET name == FinalName(CollectionName,
                                                         qres.req.opened[j])
                                   IN  \E n \in DOMAIN colls[name] :
                                          colls[name][n] = qres.ret.docs[i]

\* an ensemble query of two versions answered from the one that opened
C16_Witness ==
    /\ Opening /\ qres.raised = "none"
    /\ qres.req.v = <<V1, V2>> /\ qres.req.opened = <<V2>>
    /\ qres.ret.docs = <<"c2">>

\* the same elements, in any order
SameVersions(a, b) == {a[i] : i \in DOMAIN a} = {b[i] : i \in DOMAIN b}

\* C17: an ensemble query that follows an answered ensemble query with the same
\* question, the same k and the same versions in any order is a cache hit and
\* returns the same result
C17_KeyOrderIndependent ==
    [][(/\ IsQuery({"query_multiple_versions"})
        /\ qres.op = "query_multiple_versions" /\ qres.raised = "none"
        /\ qres'.req.q = qres.req.q /\ qres'.req.k = qres.req.k
        /\ SameVersions(qres'.req.v, qres.req.v))
         => /\ qres'.raised = "none"
            /\ qres'.ret = qres.ret
            /\ ~qres'.engine /\ ~qres'.llm]_vars

\* the result computed for ["1", "2"] was returned to a query of ["2", "1"]
C17_Witness ==
    /\ qres.op = "query_multiple_versions" /\ qres.req.v = <<V2, V1>>
    /\ qres.raised = "none" /\ qres.ret # Absent /\ ~qres.engine
    /\ qlog = <<QueryEvent(qres.req.q, Join(<<V1, V2>>), FALSE)>>

\* a question with no character other than whitespace
Blank(q) == \A i \in DOMAIN q : q[i] \in Whitespace

\* C18: a query, ensemble query or comparison with an empty or whitespace-only
\* question, and a comparison of fewer than 2 versions, raises ValueError and
\* leaves cache, usage log and catalog as they were, with no engine or model call
C18_InvalidInputRejected ==
    [][(/\ IsQuery({"query_docs", "query_simple", "query_multiple_versions",
                    "compare_versions"})
        /\ \/ Blank(qres'.req.q)
           \/ qres'.op = "compare_versions" /\ Len(qres'.req.v) < 2)
         => /\ qres'.raised = "ValueError"
            /\ files' = files /\ qlog' = qlog /\ colls' = colls
            /\ ~qres'.engine /\ ~qres'.llm]_vars

\* a comparison of one version was rejected with entries in the cache
C18_Witness ==
    /\ qres.op = "compare_versions" /\ Len(qres.req.v) = 1
    /\ qres.raised = "ValueError"
    /\ files # <<>>

(***************************************************************************)
(* Claims about the statistics                                             *)
(***************************************************************************)
\* the lines of a file that are well-formed events in the window
Counted(file) ==
    {i \in DOMAIN file.lines : file.lines[i].kind = "event" /\ file.lines[i].inwin}

CountedHits(file) == {i \in Counted(file) : file.lines[i].cached}

C20_MalformedLinesDiscarded ==
    LET good == LogFile(SelectSeq(pure.file.lines,
                                  LAMBDA l : l.kind = "event" /\ l.inwin))
    IN  /\ pure.op = "get_query_stats" /\ pure.file.exists
            => /\ ~pure.ret.empty
               /\ pure.ret.total_queries = Len(good.lines)
               /\ pure.ret = GetQueryStats(good)
        /\ pure.op = "get_embedding_stats" /\ pure.file.exists
            => /\ ~pure.ret.empty
               /\ pure.ret.total_embeddings = Len(good.lines)
               /\ pure.ret = GetEmbeddingStats(good)

(***************************************************************************)
(* Claims about eviction on overwrite                                      *)
(***************************************************************************)
\* C26: a set on a key that has an entry, on a store of exactly max_size
\* entries, removes no entry of another key
C26_OverwriteEvictsNothing ==
    [][(last'.op = "set" /\ Has(files, KeyOf(last'.req)) /\ Len(files) = MaxSize)
          => \A key \in Keys(files) : key # KeyOf(last'.req) => Has(files', key)]_vars

(***************************************************************************)
(* Claims about the ensemble cache                                         *)
(***************************************************************************)
\* the key an ensemble query of (question, versions) looks up and stores under
EnsembleKey(q, versions) == KeyOf(Req(q, EnsembleCacheKey(q, versions), 3))

\* the answered ensemble query before this one left an entry a get returns
PreviousCached ==
    /\ qres.op = "query_multiple_versions" /\ qres.raised = "none"
    /\ Live(files, now, Req(qres.req.q, EnsembleCacheKey(qres.req.q, qres.req.v), 3))

\* C27: an ensemble query whose question differs only in case or surrounding
\* whitespace from that of the answered ensemble query before it, with the same
\* version set and k, is served from the entry the earlier one left
C27_EnsembleKeyNormalised ==
    [][(/\ IsQuery({"query_multiple_versions"})
        /\ PreviousCached
        /\ SameQuestion(qres'.req.q, qres.req.q)
        /\ SameVersions(qres'.req.v, qres.req.v))
         => /\ qres'.raised = "none"
            /\ qres'.ret = qres.ret
            /\ ~qres'.engine]_vars

\* C28: an ensemble query that returns a result appends exactly one QueryEvent,
\* cached = true when it was served from the cache and false when computed
C28_EnsembleLogsEveryAnswer ==
    [][(IsQuery({"query_multiple_versions"}) /\ qres'.raised = "none")
         => /\ Len(qlog') = Len(qlog) + 1
            /\ qlog'[Len(qlog')].cached = ~qres'.engine]_vars

\* C29: an ensemble query answered while a requested version failed to open
\* leaves its result under the key of the whole requested list; the same query
\* made again, no more than ttl after, gets that result back and opens nothing,
\* whichever versions could be opened by then
C29_PartialResultCached ==
    [][/\ (/\ IsQuery({"query_multiple_versions"})
           /\ qres'.raised = "none" /\ qres'.engine
           /\ qres'.req.opened # qres'.req.v)
            => /\ Has(files', EnsembleKey(qres'.req.q, qres'.req.v))
               /\ BodyOf(files', EnsembleKey(qres'.req.q, qres'.req.v)).given
                      = qres'.ret
       /\ (/\ IsQuery({"query_multiple_versions"})
           /\ qres.op = "query_multiple_versions"
           /\ qres.raised = "none" /\ qres.engine
           /\ qres.req.opened # qres.req.v
           /\ qres'.req.q = qres.req.q /\ qres'.req.v = qres.req.v
           /\ Has(files, EnsembleKey(qres.req.q, qres.req.v))
           /\ now - BodyOf(files, EnsembleKey(qres.req.q, qres.req.v)).ts <= TTL)
            => /\ qres'.raised = "none"
               /\ qres'.ret = qres.ret
               /\ ~qres'.engine
               /\ colls' = colls]_vars

\* the result of versions 1 and 2 computed from version 1 alone came back from
\* the cache one tick later, with both versions available
C29_Witness ==
    /\ qres.op = "query_multiple_versions" /\ qres.req.v = <<V1, V2>>
    /\ qres.raised = "none" /\ ~qres.engine
    /\ qres.ret.docs = <<"c1">>
    /\ pure.op = "get_vector_db" /\ pure.available = {V1, V2}
    /\ now = 1
    /\ Has(files, EnsembleKey(qres.req.q, qres.req.v))
    /\ BodyOf(files, EnsembleKey(qres.req.q, qres.req.v)).ts = 0

(***************************************************************************)
(* Claims about directory embedding, naming of writes, and embedding events *)
(***************************************************************************)
IsEmbedDirectory == eres'.n # eres.n /\ eres'.op = "embed_directory"

\* C24: embed_directory with overwrite=True whose files all embed leaves the
\* collection of (base_name, version) holding the chunks of the directory's
\* files and nothing it held before
C24_DirectoryOverwriteReplaces ==
    [][(IsEmbedDirectory /\ eres'.overwrite /\ eres'.failed = 0)
         => LET name == FinalName(CollectionName, eres'.version)
            IN  /\ Exists(colls', name)
                /\ colls'[name] = eres'.chunks]_vars

\* C25: the collection an incremental write checks and appends to is the one
\* it creates when the check says absent and the one a query of the version
\* opens, so every chunk of a successful incremental write is in the collection
\* a query of (base_name, version) retrieves from
C25_WriteAndQuerySameCollection ==
    [][(IsEmbed /\ ~eres'.overwrite /\ eres'.raised = "none")
         => LET name == FinalName(CollectionName, eres'.version)
            IN  /\ GenerateCollectionName(name, eres'.version) = name
                /\ Exists(colls', name)
                /\ \A i \in DOMAIN eres'.chunks :
                      \E j \in DOMAIN colls'[name] :
                         colls'[name][j] = eres'.chunks[i]]_vars

\* the lines of embeddings.jsonl as get_embedding_stats reads them back
EventLines(lg) ==
    [i \in DOMAIN lg |->
        [kind |-> "event", inwin |-> TRUE, cached |-> FALSE, query |-> <<>>,
         chunks |-> lg[i].chunk_count, success |-> lg[i].success]]

\* C30: an embed_file call that succeeds appends one event, with success =
\* true, and one that fails appends none; get_embedding_stats over the log
\* counts every event and reports failed = 0
C30_EventsOnlyOnSuccess ==
    [][/\ IsEmbed
          => /\ eres'.raised = "none"
                  => /\ Len(elog') = Len(elog) + 1
                     /\ SubSeq(elog', 1, Len(elog)) = elog
                     /\ elog'[Len(elog')].success
             /\ eres'.raised # "none" => elog' = elog
       /\ LET st == GetEmbeddingStats(LogFile(EventLines(elog')))
          IN  /\ ~st.empty
              /\ st.total_embeddings = Len(elog')
              /\ st.failed = 0
              /\ st.successful = Len(elog')]_vars

\* a successful embed_file of two chunks: one event, counted as successful
C30_Witness ==
    /\ eres.op = "embed_file" /\ eres.raised = "none"
    /\ Len(elog) = 1 /\ elog[1].success /\ elog[1].chunk_count = 2
    /\ GetEmbeddingStats(LogFile(EventLines(elog))).successful = 1
    /\ GetEmbeddingStats(LogFile(EventLines(elog))).total_chunks = 2

(***************************************************************************)
(* Claims about concurrent cache calls                                     *)
(***************************************************************************)
\* C21: a set that ran from its listing to its write with no other call in
\* progress leaves at most max_size entries, however many the interleaved sets
\* before it had left
C21_OvershootTransient ==
    [][\A p \in Procs :
          (/\ procs[p].op = "set" /\ procs[p].alone
           /\ procs[p].pc # "idle" /\ procs'[p].pc = "idle")
            => Len(files') <= MaxSize]_vars

\* interleaved sets had left max_size + 1 entries, and a set that ran alone
\* brought the store back to max_size
C21_Witness ==
    /\ AllIdle
    /\ last.op = "set" /\ last.alone /\ last.raised = "none"
    /\ last.before = MaxSize + 1
    /\ Len(files) = MaxSize

\* C22: a get of the key returns absent or the whole value of one of the sets,
\* and when no call is in progress any more the store holds one entry of the
\* key, with the value of the set that wrote last
C22_LastWriteWins ==
    /\ last.op = "get"
         => /\ last.raised = "none"
            /\ \/ last.ret = Absent
               \/ \E p \in Procs : last.ret = JsonLoad(JsonDump(ResultOf(p)))
    /\ (AllIdle /\ hist.r # Absent)
         => /\ Has(files, KeyOf(RaceRequest))
            /\ BodyOf(files, KeyOf(RaceRequest)).kind = "entry"
            /\ BodyOf(files, KeyOf(RaceRequest)).given = hist.r

(***************************************************************************)
(* Claims about concurrent writes                                          *)
(***************************************************************************)
\* C23: nothing holds an overwrite back while an incremental write of the same
\* collection is between its existence check and its append: the overwrite may
\* start, and its delete step may run
C23_WritesNotSerialized ==
    procs["inc"].pc = "append"
        => /\ (procs["ow"].pc = "idle" /\ Room)
                => ENABLED OwOpen("ow", procs["inc"].version)
           /\ procs["ow"].pc = "delete" => ENABLED OwDelete("ow")

\* the incremental write found the default collection, the overwrite deleted
\* and recreated it, and the append was made on the deleted collection: the
\* collection holds the overwrite's chunk alone
C23_Witness ==
    /\ eres.op = "embed_file" /\ ~eres.overwrite /\ eres.stale
    /\ eres.version = NoVersion
    /\ Exists(colls, CollectionName)
    /\ colls[CollectionName] = <<"c2">>

====
